---- MODULE Spec2Model ----
(***************************************************************************)
(* State-machine model of truck_listing_scraper.py: the Craigslist         *)
(* enumerate-then-visit pipeline (CraigslistScraper) and the Facebook      *)
(* Marketplace scroll-then-bulk-extract pipeline                           *)
(* (FacebookMarketplaceScraper).  Text is modelled as a sequence of        *)
(* one-character strings; the browser, the pages it shows and the buttons  *)
(* of the UI are the environment and are drawn from bounded sets.          *)
(***************************************************************************)
EXTENDS Integers, Sequences, FiniteSets, TLC

VARIABLES
    \* ---- FacebookMarketplaceScraper.wait_and_scroll ----
    sc_pc,            \* "idle" | "loop" | "final" | "done"
    scroll_attempts,  \* the scroll_attempts argument
    attempt,          \* number of loop iterations entered so far
    last_count,       \* local last_count
    no_change_count,  \* local no_change_count
    observed,         \* results of get_listing_count inside the loop, in order
    scrolls,          \* number of window.scrollTo actions issued
    outcome,          \* "none" | "stall" (left by break) | "cap" (range exhausted)
    final_count,      \* the returned value, NoCount before the return
    count_calls,      \* results of every get_listing_count call of the session
    \* ---- FacebookMarketplaceScraper.extract_all_listings ----
    bk_pc,            \* "idle" | "loop" | "done"
    marketplace_links,\* the matched a[href*='/marketplace/item/'] nodes, document order
    bk_i,             \* number of links the loop has handled
    listings,         \* local listings (the returned list)
    seen_urls,        \* local seen_urls
    price_lookups,    \* per record, the price strategies queried (lines 684-692)
    \* ---- CraigslistScraper.extract_listing_urls ----
    d_pc,             \* "idle" | "s1" | "s2" | "s3" | "ret" | "done" | "raised"
    search_page,      \* the container elements of the loaded search page
    wait_ok,          \* the readiness wait of lines 205-214 saw a container
    queried,          \* container strategies queried so far, in order
    listing_urls,     \* local listing_urls, then the returned list
    \* ---- CraigslistScraper.extract_listing_details ----
    det_pc,           \* "idle" | "loaded" | "done"
    det_url,          \* the listing_url argument
    det_page,         \* the detail page the browser shows
    det_result,       \* the returned listings: <<listing_data>>, or <<>> for None
    det_lookups,      \* the selector lookups made, in order
    \* ---- CraigslistScraper.scrape_craigslist ----
    c_pc,             \* "idle" | "discover" | "limit" | "visit" | "finish" | "done"
    c_driver,         \* self.driver: "none" | "live" | "quit"
    quit_calls,       \* number of driver.quit() calls
    max_listings,     \* the max_listings argument, 0 for None
    c_urls,           \* local listing_urls of scrape_craigslist
    c_i,              \* number of URLs the loop has handled
    all_listings,     \* local all_listings
    visited,          \* the visits made: the URL and the detail page shown
    c_result,         \* the returned list
    c_found,          \* the list extract_listing_urls returned (line 417)
    \* ---- FacebookMarketplaceScraper.scrape_facebook_marketplace, main ----
    f_pc,             \* position in scrape_facebook_marketplace and main
    runs,             \* number of completed runs of the scraper
    session_file,     \* content of self.session_file on disk
    fb_driver,        \* self.driver: 0 for None, else a browser context
    live_contexts,    \* the browser contexts that are open
    contexts,         \* number of browser contexts created in the run
    session_exists,   \* local session_exists
    session_loaded,   \* local session_loaded
    headless_success, \* local headless_success
    test_count,       \* local test_count, NoCount before the probe
    fb_driver_ready,  \* st.session_state.fb_driver_ready (FALSE: absent)
    fb_driver_instance, \* st.session_state.fb_driver_instance (0: absent)
    fb_log,           \* what the run did, in order
    fb_result         \* "none" | "empty" | "listings"

scrollVars == <<sc_pc, scroll_attempts, attempt, last_count, no_change_count,
                observed, scrolls, outcome, final_count, count_calls>>

bulkVars == <<bk_pc, marketplace_links, bk_i, listings, seen_urls, price_lookups>>

discVars == <<d_pc, search_page, wait_ok, queried, listing_urls>>

detVars == <<det_pc, det_url, det_page, det_result, det_lookups>>

clVars == <<c_pc, c_driver, quit_calls, max_listings, c_urls, c_i, all_listings,
           visited, c_result, c_found>>

fbVars == <<f_pc, runs, session_file, fb_driver, live_contexts, contexts,
           session_exists, session_loaded, headless_success, test_count,
           fb_driver_ready, fb_driver_instance, fb_log, fb_result>>

vars == <<scrollVars, bulkVars, discVars, detVars, clVars, fbVars>>

(***************************************************************************)
(* Bounds of the model.                                                    *)
(***************************************************************************)
MaxScrollAttempts == 10   \* largest scroll_attempts argument tried
FreeCalls == 5            \* count calls whose result is drawn from CountValues
MaxLinks == 3             \* most container nodes on a marketplace page
MaxContainers == 3        \* most container elements on a search page
MaxRuns == 2               \* most runs of the marketplace scraper in a behaviour
MaxCookies == 2            \* most cookies in a stored session

NoCount == -1

(***************************************************************************)
(* Text: a string is a sequence of one-character strings.                  *)
(***************************************************************************)
Digits == {"0", "1", "2", "3", "4", "5", "6", "7", "8", "9"}

UpperToLower ==
    [c \in {"A", "B", "C", "D", "E", "F", "G", "H", "I", "J", "K", "L", "M",
            "N", "O", "P", "Q", "R", "S", "T", "U", "V", "W", "X", "Y", "Z"} |->
        CASE c = "A" -> "a" [] c = "B" -> "b" [] c = "C" -> "c" [] c = "D" -> "d"
          [] c = "E" -> "e" [] c = "F" -> "f" [] c = "G" -> "g" [] c = "H" -> "h"
          [] c = "I" -> "i" [] c = "J" -> "j" [] c = "K" -> "k" [] c = "L" -> "l"
          [] c = "M" -> "m" [] c = "N" -> "n" [] c = "O" -> "o" [] c = "P" -> "p"
          [] c = "Q" -> "q" [] c = "R" -> "r" [] c = "S" -> "s" [] c = "T" -> "t"
          [] c = "U" -> "u" [] c = "V" -> "v" [] c = "W" -> "w" [] c = "X" -> "x"
          [] c = "Y" -> "y" [] c = "Z" -> "z"]

UpperLetters == DOMAIN UpperToLower
LowerLetters == {UpperToLower[c] : c \in UpperLetters}
Letters == UpperLetters \cup LowerLetters

LowerChar(c) == IF c \in UpperLetters THEN UpperToLower[c] ELSE c
UpperChar(c) ==
    IF c \in LowerLetters THEN CHOOSE u \in UpperLetters : UpperToLower[u] = c ELSE c

\* str.lower()
Lower(s) == [i \in 1..Len(s) |-> LowerChar(s[i])]

IsSpace(c) == c \in {" ", "\n", "\t"}

RECURSIVE LStrip(_)
LStrip(s) == IF s # <<>> /\ IsSpace(Head(s)) THEN LStrip(Tail(s)) ELSE s

RECURSIVE RStrip(_)
RStrip(s) ==
    IF s # <<>> /\ IsSpace(s[Len(s)]) THEN RStrip(SubSeq(s, 1, Len(s) - 1)) ELSE s

\* str.strip()
Strip(s) == RStrip(LStrip(s))

\* str.startswith(pat)
StartsWith(s, pat) == Len(s) >= Len(pat) /\ SubSeq(s, 1, Len(pat)) = pat

\* pat in s
Contains(s, pat) ==
    \E i \in 1..(Len(s) - Len(pat) + 1) : SubSeq(s, i, i + Len(pat) - 1) = pat

\* Python truth of a string or of None
NoValue == <<"<None>">>
Truthy(v) == v # NoValue /\ v # <<>>

\* Position of the first occurrence of pat in s at or after from, 0 if none.
Find(s, pat, from) ==
    LET hits == {i \in from..(Len(s) - Len(pat) + 1) :
                    SubSeq(s, i, i + Len(pat) - 1) = pat}
    IN  IF hits = {} THEN 0 ELSE CHOOSE i \in hits : \A j \in hits : i <= j

\* Position of the last occurrence of pat in s, 0 if none.
FindLast(s, pat) ==
    LET hits == {i \in 1..(Len(s) - Len(pat) + 1) :
                    SubSeq(s, i, i + Len(pat) - 1) = pat}
    IN  IF hits = {} THEN 0 ELSE CHOOSE i \in hits : \A j \in hits : i >= j

SchemeSep == <<":", "/", "/">>

\* urllib.parse.urljoin(base, href) for an absolute href, a href that starts
\* at the root of the site, and a href relative to the directory of base.
UrlJoin(base, href) ==
    IF Contains(href, SchemeSep) THEN href
    ELSE LET host == Find(base, SchemeSep, 1) + Len(SchemeSep)
             path == Find(base, <<"/">>, host)
             origin == IF path = 0 THEN base ELSE SubSeq(base, 1, path - 1)
         IN  IF StartsWith(href, <<"/">>) THEN origin \o href
             ELSE IF path = 0 THEN base \o <<"/">> \o href
             ELSE SubSeq(base, 1, FindLast(base, <<"/">>)) \o href

\* Mutant: membership is never found.
InList_Never(x, list) == FALSE

\* Mutant: the new record is put in front of the list.
Collect_InFront(list, record) == <<record>> \o list

\* list.append(record)
Collect(list, record) == Append(list, record)

\* x in a list
InList(x, list) == \E i \in 1..Len(list) : list[i] = x

\* str.replace(pat, rep), pat not empty
RECURSIVE Replace(_, _, _)
Replace(s, pat, rep) ==
    IF Len(s) < Len(pat) THEN s
    ELSE IF StartsWith(s, pat)
         THEN rep \o Replace(SubSeq(s, Len(pat) + 1, Len(s)), pat, rep)
         ELSE <<Head(s)>> \o Replace(Tail(s), pat, rep)

\* str.split(sep)[-1] for a one-character sep
LastSegment(s, sep) == SubSeq(s, FindLast(s, sep) + 1, Len(s))

\* str.title(): a letter is upper case after a character that is no letter,
\* lower case after a letter.
TitleCase(s) ==
    [i \in 1..Len(s) |->
        IF i > 1 /\ s[i - 1] \in Letters THEN LowerChar(s[i]) ELSE UpperChar(s[i])]

\* Length of the longest prefix of s whose characters satisfy the class.
RECURSIVE RunLength(_, _)
RunLength(s, class) ==
    IF s # <<>> /\ Head(s) \in class THEN 1 + RunLength(Tail(s), class) ELSE 0

Drop(s, n) == SubSeq(s, n + 1, Len(s))

Spaces == {" ", "\n", "\t"}

\* The string c repeated n times.
Repeat(c, n) == [i \in 1..n |-> c]

(***************************************************************************)
(* The scroll convergence controller.                                      *)
(***************************************************************************)
\* Values get_listing_count may report on the first FreeCalls calls.
CountValues == {0, 5, 8, 12}

\* get_listing_count (the feed): any of CountValues on the first calls, then
\* either the value of the previous call or one more listing.
GetListingCount(calls) ==
    IF Len(calls) < FreeCalls THEN CountValues
    ELSE {calls[Len(calls)], calls[Len(calls)] + 1}

StallLimit == 3

\* Mutant: a lower count is taken for a stall as well.
SameCount_NotGreater(current, last) == current <= last

\* line 614: if current_listings == last_count
SameCount(current, last) == current = last

\* Mutant: the loop gives up one stall early.
StallLimitReached_Early(n) == n >= StallLimit - 1

\* line 616: if no_change_count >= 3
StallLimitReached(n) == n >= StallLimit

\* Mutant: the loop ignores the attempt cap.
RangeHasNext_NoCap(a, n) == TRUE

\* line 608: for attempt in range(scroll_attempts) has another iteration
RangeHasNext(a, n) == a < n

ScrollInit ==
    /\ sc_pc = "idle"
    /\ scroll_attempts = 0
    /\ attempt = 0
    /\ last_count = 0
    /\ no_change_count = 0
    /\ observed = <<>>
    /\ scrolls = 0
    /\ outcome = "none"
    /\ final_count = NoCount
    /\ count_calls = <<>>

\* lines 597-606: entry of wait_and_scroll
WaitAndScrollEnter(n) ==
    /\ scroll_attempts' = n
    /\ attempt' = 0
    /\ last_count' = 0
    /\ no_change_count' = 0
    /\ observed' = <<>>
    /\ scrolls' = 0
    /\ outcome' = IF RangeHasNext(0, n) THEN "none" ELSE "cap"
    /\ sc_pc' = IF RangeHasNext(0, n) THEN "loop" ELSE "final"
    /\ count_calls' = <<>>
    /\ UNCHANGED final_count

\* A call of wait_and_scroll with any scroll_attempts argument
WaitAndScrollCall ==
    /\ sc_pc = "idle"
    /\ \E n \in 0..MaxScrollAttempts : WaitAndScrollEnter(n)

\* lines 608-640: one iteration of the scrolling loop
ScrollIteration ==
    /\ sc_pc = "loop"
    /\ \E current \in GetListingCount(observed) :
        LET same == SameCount(current, last_count)
            streak == IF same THEN no_change_count + 1 ELSE 0
            stop == same /\ StallLimitReached(streak)
        IN  /\ observed' = Append(observed, current)
            /\ count_calls' = Append(count_calls, current)
            /\ attempt' = attempt + 1
            /\ no_change_count' = streak
            /\ IF stop
               THEN /\ sc_pc' = "final"
                    /\ outcome' = "stall"
                    /\ UNCHANGED <<last_count, scrolls>>
               ELSE /\ last_count' = current
                    /\ scrolls' = scrolls + 1
                    /\ IF RangeHasNext(attempt + 1, scroll_attempts)
                       THEN sc_pc' = "loop" /\ UNCHANGED outcome
                       ELSE sc_pc' = "final" /\ outcome' = "cap"
    /\ UNCHANGED <<scroll_attempts, final_count>>

\* Mutant: the count of the last loop iteration is returned.
FinalCount_LastLoop(calls) == IF Len(calls) > 1 THEN calls[Len(calls) - 1] ELSE 0

\* lines 642-644: the value returned, given the count calls made
FinalCount(calls) == calls[Len(calls)]

\* lines 642-644: final count and return
ScrollReturn ==
    /\ sc_pc = "final"
    /\ \E c \in GetListingCount(observed) :
        /\ count_calls' = Append(count_calls, c)
        /\ final_count' = FinalCount(Append(count_calls, c))
    /\ sc_pc' = "done"
    /\ UNCHANGED <<scroll_attempts, attempt, last_count, no_change_count,
                   observed, scrolls, outcome>>


(***************************************************************************)
(* Bulk extraction: FacebookMarketplaceScraper.extract_all_listings.       *)
(***************************************************************************)
NA == <<"N", "/", "A">>

\* The answer of a get_attribute call that raises, and of a find_elements
\* call that raises.
Raises == <<"<raises>">>
RaisesList == <<Raises>>

\* URLs of marketplace items.
ItemUrl(n) == <<"/", "i", "t", "e", "m", "/", n>>

\* A container node: what the browser answers for the lookups made on it.
\*   href    the href attribute, or Raises (a stale node)
\*   p1, p2, p3  the texts of the elements matched by the three price XPaths
\*   pfail   the price query (1..3) that raises, 0 for none
\*   imgs    the alt attributes of the img elements, or RaisesList
\*   texts   the texts of the elements matched by the location XPath, or
\*           RaisesList
\*   miles   the texts of the elements matched by the mileage XPath
PlainLink(n) ==
    [href |-> ItemUrl(n), p1 |-> <<>>, p2 |-> <<>>, p3 |-> <<>>, pfail |-> 0,
     imgs |-> <<>>, texts |-> <<>>, miles |-> <<>>]

Price5 == <<"$", "5">>
Price9k == <<"$", "9", ",", "0", "0", "0">>
TruckAlt == <<"F", "o", "r", "d">>
BendOR == <<"B", "e", "n", "d", ",", " ", "O", "R">>
MilesWA == <<"2", "K", " ", "M", "i", "l", "e", "s", ",", " ", "W", "A">>
FiveMiles == <<"5", "K", " ", "m", "i", "l", "e", "s">>

LinkFixtures ==
    { PlainLink("1"),
      [PlainLink("1") EXCEPT !.p1 = <<Price5>>, !.imgs = <<TruckAlt>>,
                             !.texts = <<BendOR>>, !.miles = <<FiveMiles>>],
      [PlainLink("1") EXCEPT !.p2 = <<Price9k>>, !.imgs = <<NoValue, TruckAlt>>],
      [PlainLink("2") EXCEPT !.p1 = <<<<"$">>>>, !.p2 = <<Price5>>,
                             !.imgs = <<<<" ">>>>],
      [PlainLink("2") EXCEPT !.p3 = <<<<"a", "$", "5">>, <<" ", "$", "5", " ">>>>,
                             !.texts = <<MilesWA, BendOR>>],
      [PlainLink("2") EXCEPT !.p1 = <<<<"$", "a">>, <<"$">> \o Repeat("1", 29)>>,
                             !.p3 = <<Price5>>, !.imgs = RaisesList],
      [PlainLink("3") EXCEPT !.pfail = 2, !.p3 = <<Price5>>, !.texts = RaisesList,
                             !.miles = <<FiveMiles>>],
      [PlainLink("3") EXCEPT !.href = Raises, !.p1 = <<Price5>>],
      [PlainLink("3") EXCEPT !.p1 = <<Price9k, Price5>>,
                             !.miles = <<<<"m", "i", "l", "e">> \o Repeat("s", 26),
                                         FiveMiles>>] }

RECURSIVE SeqsUpTo(_, _)
SeqsUpTo(S, n) ==
    IF n = 0 THEN {<<>>}
    ELSE LET shorter == SeqsUpTo(S, n - 1)
         IN  shorter \cup {Append(q, x) : q \in {r \in shorter : Len(r) = n - 1}, x \in S}

\* What find_elements(a[href*='/marketplace/item/']) may return (line 652).
MarketplacePages == SeqsUpTo(LinkFixtures, MaxLinks)

\* lines 697-699: the text looks like a price
LooksLikePrice(t) ==
    /\ Contains(t, <<"$">>) /\ Len(t) < 30 /\ Len(t) > 1
    /\ StartsWith(t, <<"$">>)
    /\ \E i \in 1..Len(t) : t[i] \in Digits

PriceQuery(link, k) ==
    IF link.pfail = k THEN RaisesList
    ELSE IF k = 1 THEN link.p1 ELSE IF k = 2 THEN link.p2 ELSE link.p3

\* Mutant: a strategy whose elements hold no valid price hands over to the
\* next strategy.
ExtractPrice_UntilValid(link) ==
    LET Valid(q) == IF q = RaisesList THEN {}
                    ELSE {i \in 1..Len(q) : LooksLikePrice(Strip(q[i]))}
        q1 == PriceQuery(link, 1)
        q2 == PriceQuery(link, 2)
        q3 == PriceQuery(link, 3)
        tried == IF Valid(q1) # {} THEN <<1>>
                 ELSE IF Valid(q2) # {} THEN <<1, 2>>
                 ELSE <<1, 2, 3>>
        last == IF Len(tried) = 1 THEN q1 ELSE IF Len(tried) = 2 THEN q2 ELSE q3
    IN  [price |-> IF Valid(last) = {} THEN NA
                   ELSE Strip(last[CHOOSE i \in Valid(last) : \A j \in Valid(last) : i <= j]),
         queried |-> tried]

\* lines 682-706: the price, and the price strategies that were queried
ExtractPrice(link) ==
    LET q1 == PriceQuery(link, 1)
        q2 == PriceQuery(link, 2)
        q3 == PriceQuery(link, 3)
        tried == IF q1 # <<>> THEN <<1>>
                   ELSE IF q2 # <<>> THEN <<1, 2>>
                   ELSE <<1, 2, 3>>
        last == IF Len(tried) = 1 THEN q1 ELSE IF Len(tried) = 2 THEN q2 ELSE q3
        valid == IF last = RaisesList THEN {}
                 ELSE {i \in 1..Len(last) : LooksLikePrice(Strip(last[i]))}
    IN  [price |-> IF valid = {} THEN NA
                   ELSE Strip(last[CHOOSE i \in valid : \A j \in valid : i <= j]),
         queried |-> tried]

\* lines 709-714: the title from the first image's alt text
ExtractTitle(link) ==
    IF link.imgs # RaisesList /\ link.imgs # <<>> /\ Truthy(link.imgs[1])
    THEN Strip(link.imgs[1]) ELSE NA

MileWord == <<"m", "i", "l", "e">>

\* lines 717-738: location and mileage
ExtractLocationMileage(link) ==
    IF link.texts = RaisesList THEN [location |-> NA, mileage |-> NA]
    ELSE
    LET hits == {i \in 1..Len(link.texts) :
                    /\ Contains(Strip(link.texts[i]), <<",", " ">>)
                    /\ Len(Strip(link.texts[i])) < 50}
        first == IF hits = {} THEN <<>>
                 ELSE Strip(link.texts[CHOOSE i \in hits : \A j \in hits : i <= j])
        isMileage == first # <<>> /\ Contains(Lower(first), MileWord)
        mhits == {i \in 1..Len(link.miles) :
                    /\ Contains(Lower(Strip(link.miles[i])), MileWord)
                    /\ Len(Strip(link.miles[i])) < 30}
    IN  [location |-> IF first # <<>> /\ ~isMileage THEN first ELSE NA,
         mileage |-> IF isMileage THEN first
                     ELSE IF mhits = {} THEN NA
                     ELSE Strip(link.miles[CHOOSE i \in mhits : \A j \in mhits : i <= j])]

\* lines 673-740: the record built for one container node
BuildFacebookRecord(link) ==
    LET lm == ExtractLocationMileage(link)
    IN  [url |-> link.href,
         title |-> ExtractTitle(link),
         price |-> ExtractPrice(link).price,
         mileage |-> lm.mileage,
         location |-> lm.location]

\* Mutant: duplicates are not skipped.
IsDuplicate_Never(url, seen) == FALSE

\* line 669: if url in seen_urls
IsDuplicate(url, seen) == url \in seen

BulkInit ==
    /\ bk_pc = "idle"
    /\ marketplace_links = <<>>
    /\ bk_i = 0
    /\ listings = <<>>
    /\ seen_urls = {}
    /\ price_lookups = <<>>

\* lines 646-659: the container nodes are looked up; a failing lookup is
\* caught at line 752 and the empty list is returned.
ExtractAllListingsEnter ==
    /\ bk_pc = "idle"
    /\ \E page \in MarketplacePages, fails \in BOOLEAN :
        /\ marketplace_links' = IF fails THEN <<>> ELSE page
        /\ bk_pc' = IF fails \/ page = <<>> THEN "done" ELSE "loop"
    /\ bk_i' = 0
    /\ listings' = <<>>
    /\ seen_urls' = {}
    /\ price_lookups' = <<>>

\* lines 661-747: one iteration over a container node
ExtractAllListingsIteration ==
    /\ bk_pc = "loop"
    /\ LET link == marketplace_links[bk_i + 1]
       IN  IF link.href = Raises
           THEN UNCHANGED <<listings, seen_urls, price_lookups>>
           ELSE IF IsDuplicate(link.href, seen_urls)
                THEN UNCHANGED <<listings, seen_urls, price_lookups>>
                ELSE /\ seen_urls' = seen_urls \cup {link.href}
                     /\ listings' = Collect(listings, BuildFacebookRecord(link))
                     /\ price_lookups' = Append(price_lookups, ExtractPrice(link).queried)
    /\ bk_i' = bk_i + 1
    /\ bk_pc' = IF bk_i + 1 < Len(marketplace_links) THEN "loop" ELSE "done"
    /\ UNCHANGED marketplace_links



(***************************************************************************)
(* URL discovery: CraigslistScraper.extract_listing_urls.                  *)
(***************************************************************************)
SearchUrl == <<"h", "t", "t", "p", ":", "/", "/", "c", "/", "s">>

HrefA == <<"/", "d", "/", "a">>
HrefAAbsolute == <<"h", "t", "t", "p", ":", "/", "/", "c", "/", "d", "/", "a">>
HrefB == <<"/", "d", "/", "b">>
HrefC == <<"/", "d", "/", "c">>
HrefNoMarker == <<"/", "x", "/", "c">>

DetailMarker == <<"/", "d", "/">>

\* An anchor of a container: app says whether it matches a.cl-app-anchor.
Anchor(app, href) == [app |-> app, href |-> href]

\* A container element of the search page.
\*   sel      the container strategies whose selector it matches:
\*            1 result-node, 2 .cl-search-result, 3 [data-pid]
\*   anchors  its a elements in document order
\*   stale    lookups inside it raise
Container(sel, anchors) == [sel |-> sel, anchors |-> anchors, stale |-> FALSE]

ContainerFixtures ==
    { Container({1}, <<Anchor(TRUE, HrefA)>>),
      Container({1}, <<Anchor(FALSE, HrefB), Anchor(TRUE, HrefNoMarker),
                       Anchor(TRUE, HrefAAbsolute)>>),
      Container({1, 2}, <<Anchor(TRUE, HrefA), Anchor(TRUE, HrefB)>>),
      Container({1, 2, 3}, <<Anchor(TRUE, NoValue), Anchor(FALSE, <<>>)>>),
      Container({2}, <<Anchor(FALSE, HrefB)>>),
      Container({2, 3}, <<Anchor(FALSE, HrefNoMarker), Anchor(FALSE, HrefA)>>),
      Container({2, 3}, <<Anchor(FALSE, HrefB), Anchor(FALSE, HrefA)>>),
      Container({3}, <<Anchor(FALSE, HrefAAbsolute)>>),
      Container({3}, <<>>),
      Container({1}, <<Anchor(TRUE, HrefC)>>),
      [Container({1, 2, 3}, <<Anchor(TRUE, HrefB)>>) EXCEPT !.stale = TRUE] }

\* The pages driver.get(search_url) may load (line 198).
SearchPages == SeqsUpTo(ContainerFixtures, MaxContainers)

\* driver.find_elements for the selector of container strategy k
RECURSIVE FindContainers(_, _)
FindContainers(page, k) ==
    IF page = <<>> THEN <<>>
    ELSE IF k \in Head(page).sel
         THEN <<Head(page)>> \o FindContainers(Tail(page), k)
         ELSE FindContainers(Tail(page), k)

\* lines 229, 248, 263: if href and '/d/' in href
IsDetailHref(href) == Truthy(href) /\ Contains(href, DetailMarker)

\* lines 227-233: the a.cl-app-anchor links of one result node; the loop ends
\* at the first link that adds a URL.
RECURSIVE NodeLinks(_, _, _)
NodeLinks(links, urls, base) ==
    IF links = <<>> THEN urls
    ELSE IF Head(links).app
            /\ IsDetailHref(Head(links).href)
            /\ ~InList(UrlJoin(base, Head(links).href), urls)
         THEN Append(urls, UrlJoin(base, Head(links).href))
         ELSE NodeLinks(Tail(links), urls, base)

\* lines 224-235: strategy 1 over the result nodes
RECURSIVE ResultNodeUrls(_, _, _)
ResultNodeUrls(nodes, urls, base) ==
    IF nodes = <<>> THEN urls
    ELSE ResultNodeUrls(Tail(nodes),
                        IF Head(nodes).stale THEN urls
                        ELSE NodeLinks(Head(nodes).anchors, urls, base),
                        base)

\* lines 244-253 and 259-268: strategies 2 and 3 read the first a element of
\* each container; a container without one raises and is skipped.
RECURSIVE FirstAnchorUrls(_, _, _)
FirstAnchorUrls(containers, urls, base) ==
    IF containers = <<>> THEN urls
    ELSE LET c == Head(containers)
             ok == /\ ~c.stale
                   /\ c.anchors # <<>>
                   /\ IsDetailHref(c.anchors[1].href)
                   /\ ~InList(UrlJoin(base, c.anchors[1].href), urls)
         IN  FirstAnchorUrls(Tail(containers),
                             IF ok THEN Append(urls, UrlJoin(base, c.anchors[1].href))
                             ELSE urls,
                             base)

\* Mutant: the alternative selectors are tried whatever was found.
NoUrlsYet_Always(urls) == TRUE

\* lines 238, 255: if len(listing_urls) == 0
NoUrlsYet(urls) == Len(urls) = 0

DiscInit ==
    /\ d_pc = "idle"
    /\ search_page = <<>>
    /\ wait_ok = FALSE
    /\ queried = <<>>
    /\ listing_urls = <<>>

\* lines 195-218: the page is loaded and the readiness wait runs; a failing
\* driver.get raises to the caller.
ExtractListingUrlsEnter ==
    /\ d_pc = "idle"
    /\ \E page \in SearchPages, navFails \in BOOLEAN :
        /\ search_page' = IF navFails THEN <<>> ELSE page
        /\ wait_ok' = (~navFails /\ \E k \in 1..3 : FindContainers(page, k) # <<>>)
        /\ d_pc' = IF navFails THEN "raised" ELSE "s1"
    /\ queried' = <<>>
    /\ listing_urls' = <<>>

\* lines 220-238: strategy 1, result-node
DiscoverResultNodes ==
    /\ d_pc = "s1"
    /\ queried' = Append(queried, 1)
    /\ listing_urls' = ResultNodeUrls(FindContainers(search_page, 1), listing_urls, SearchUrl)
    /\ d_pc' = IF NoUrlsYet(listing_urls') THEN "s2" ELSE "ret"
    /\ UNCHANGED <<search_page, wait_ok>>

\* lines 239-255: strategy 2, .cl-search-result
DiscoverSearchResults ==
    /\ d_pc = "s2"
    /\ queried' = Append(queried, 2)
    /\ listing_urls' = FirstAnchorUrls(FindContainers(search_page, 2), listing_urls, SearchUrl)
    /\ d_pc' = IF NoUrlsYet(listing_urls') THEN "s3" ELSE "ret"
    /\ UNCHANGED <<search_page, wait_ok>>

\* lines 256-268: strategy 3, [data-pid]
DiscoverPidElements ==
    /\ d_pc = "s3"
    /\ queried' = Append(queried, 3)
    /\ listing_urls' = FirstAnchorUrls(FindContainers(search_page, 3), listing_urls, SearchUrl)
    /\ d_pc' = "ret"
    /\ UNCHANGED <<search_page, wait_ok>>

\* lines 270-271: return listing_urls
ExtractListingUrlsReturn ==
    /\ d_pc = "ret"
    /\ d_pc' = "done"
    /\ UNCHANGED <<search_page, wait_ok, queried, listing_urls>>


(***************************************************************************)
(* The detail record: CraigslistScraper.extract_listing_details.           *)
(***************************************************************************)
\* The answer for a selector that matches no element (find_element raises).
NoElem == <<"<no element>">>

\* lines 277-293: safe_find_element_text; elem is what the page holds for the
\* selector: NoElem, the text of the element, or Raises if reading the text
\* of the element raises
SafeFindElementText(elem) ==
    IF elem = NoElem \/ elem = Raises THEN <<>> ELSE Strip(elem)

\* Mutant: the attribute is returned as read, without the default.
SafeFindElementAttribute_NoDefault(elem, value) ==
    IF elem = NoElem THEN <<>> ELSE value

\* lines 295-311: safe_find_element_attribute; elem says whether the element
\* exists, value is its attribute (NoValue for an absent attribute, Raises if
\* get_attribute raises)
SafeFindElementAttribute(elem, value) ==
    IF elem = NoElem \/ value = Raises \/ value = NoValue THEN <<>> ELSE value

\* Mutant: a later strategy overwrites the result of an earlier one.
RECURSIVE FallbackChain_LastWins(_)
FallbackChain_LastWins(results) ==
    IF results = <<>> THEN [value |-> <<>>, consulted |-> 0]
    ELSE LET rest == FallbackChain_LastWins(Tail(results))
         IN  [value |-> IF rest.value # <<>> THEN rest.value ELSE Head(results),
              consulted |-> Len(results)]

\* lines 342-348 and 393-399: x = s1; if not x: x = s2; if not x: x = s3; ...
\* results[k] is what strategy k yields; consulted is how many were looked up.
RECURSIVE FallbackChain(_)
FallbackChain(results) ==
    IF results = <<>> THEN [value |-> <<>>, consulted |-> 0]
    ELSE IF Head(results) # <<>> \/ Len(results) = 1
         THEN [value |-> Head(results), consulted |-> 1]
         ELSE LET rest == FallbackChain(Tail(results))
              IN  [value |-> rest.value, consulted |-> 1 + rest.consulted]

TitleSelectors == <<"#titletextonly", ".postingtitletext .titletextonly",
                    "h1 .titletextonly", ".postingtitle">>

DateSelectors == <<"time.date.timeago@datetime", "time.date.timeago@title",
                   "time.date.timeago", ".postinginfos .postinginfo:first-child .date">>

\* What the four title strategies yield on a page (lines 342-348).
TitleResults(page) ==
    <<SafeFindElementText(page.t1), SafeFindElementText(page.t2),
      SafeFindElementText(page.t3), SafeFindElementText(page.t4)>>

\* What the four posting date strategies yield on a page (lines 393-399).
DateResults(page) ==
    <<SafeFindElementAttribute(page.time, page.time_datetime),
      SafeFindElementAttribute(page.time, page.time_title),
      SafeFindElementText(page.time),
      SafeFindElementText(page.infodate)>>

\* line 353: re.match(r'(\d{4})\s+([A-Za-z]+)\s+([A-Za-z0-9\-\s]+)', title);
\* <<>> for no match, else the three groups.
\* Mutant: the pattern never matches.
TitleMatch_Never(title) == <<>>

TitleMatch(title) ==
    LET afterYear == Drop(title, 4)
        w1 == RunLength(afterYear, Spaces)
        afterW1 == Drop(afterYear, w1)
        make == RunLength(afterW1, Letters)
        afterMake == Drop(afterW1, make)
        w2 == RunLength(afterMake, Spaces)
        afterW2 == Drop(afterMake, w2)
        rest == RunLength(afterW2, Letters \cup Digits \cup {"-"} \cup Spaces)
    IN  IF Len(title) < 4 \/ RunLength(title, Digits) < 4 \/ w1 = 0 \/ make = 0 \/ w2 = 0
        THEN <<>>
        ELSE IF rest > 0
             THEN <<SubSeq(title, 1, 4), SubSeq(afterW1, 1, make), SubSeq(afterW2, 1, rest)>>
             ELSE IF w2 > 1
                  THEN <<SubSeq(title, 1, 4), SubSeq(afterW1, 1, make),
                         <<afterMake[w2]>>>>
                  ELSE <<>>

\* line 359: the title made from the last path segment of the URL
UrlTitle(url) ==
    TitleCase(Replace(Replace(LastSegment(url, <<"/">>),
                              <<".", "h", "t", "m", "l">>, <<>>),
                      <<"-">>, <<" ">>))

\* line 377: re.sub(r'[()]', '', primary_location).strip()
RECURSIVE RemoveParens(_)
RemoveParens(s) ==
    IF s = <<>> THEN <<>>
    ELSE IF Head(s) \in {"(", ")"} THEN RemoveParens(Tail(s))
         ELSE <<Head(s)>> \o RemoveParens(Tail(s))

GoogleMap == <<"g", "o", "o", "g", "l", "e", " ", "m", "a", "p">>

\* line 382: re.sub(r'google map.*$', '', address, flags=re.IGNORECASE).strip()
\* The pattern matches from an occurrence of the words that has no line break
\* between it and the end of the text.
CutGoogleMap(s) ==
    LET hits == {i \in 1..(Len(s) - Len(GoogleMap) + 1) :
                    /\ Lower(SubSeq(s, i, i + Len(GoogleMap) - 1)) = GoogleMap
                    /\ \A j \in (i + Len(GoogleMap))..Len(s) : s[j] # "\n"}
    IN  IF hits = {} THEN s
        ELSE SubSeq(s, 1, (CHOOSE i \in hits : \A j \in hits : i <= j) - 1)

Joiner == <<" ", "-", " ">>

\* lines 373-387: location assembly
AssembleLocation(page) ==
    LET primary_location == SafeFindElementText(page.small)
        part1 == IF primary_location # <<>>
                 THEN <<Strip(RemoveParens(primary_location))>> ELSE <<>>
        address == SafeFindElementText(page.mapaddress)
        address_clean == Strip(CutGoogleMap(address))
        parts == IF address # <<>> /\ address_clean # <<>> /\ ~InList(address_clean, part1)
                 THEN Append(part1, address_clean) ELSE part1
    IN  IF parts = <<>> THEN <<>>
        ELSE IF Len(parts) = 1 THEN parts[1]
        ELSE parts[1] \o Joiner \o parts[2]

\* datetime.now().strftime('%Y-%m-%d %H:%M:%S') at the time of the visit
Now == <<"2", "0", "2", "5", "-", "0", "1", "-", "0", "1", " ",
         "0", "0", ":", "0", "0", ":", "0", "0">>

Craigslist == <<"C", "r", "a", "i", "g", "s", "l", "i", "s", "t">>

\* lines 319-404: the record built from a loaded page
BuildListingData(url, page) ==
    LET found == FallbackChain(TitleResults(page)).value
        m == IF found # <<>> THEN TitleMatch(found) ELSE <<>>
    IN  [url |-> url,
         title |-> IF found # <<>> THEN found ELSE UrlTitle(url),
         price |-> SafeFindElementText(page.price),
         year |-> IF m # <<>> THEN m[1] ELSE <<>>,
         make |-> IF m # <<>> THEN m[2] ELSE <<>>,
         model |-> IF m # <<>> THEN Strip(m[3]) ELSE <<>>,
         vin |-> SafeFindElementText(page.vin),
         mileage |-> SafeFindElementText(page.mileage),
         cylinders |-> SafeFindElementText(page.cylinders),
         drive |-> SafeFindElementText(page.drive),
         fuel |-> SafeFindElementText(page.fuel),
         color |-> SafeFindElementText(page.color),
         transmission |-> SafeFindElementText(page.transmission),
         type |-> SafeFindElementText(page.type),
         location |-> AssembleLocation(page),
         google_maps_link |-> SafeFindElementAttribute(page.mapaddress_a, page.maplink),
         date_posted |-> FallbackChain(DateResults(page)).value,
         date_scraped |-> Now,
         source |-> Craigslist]

\* The selector lookups extract_listing_details makes on a page, in order.
DetailLookups(page) ==
    SubSeq(TitleSelectors, 1, FallbackChain(TitleResults(page)).consulted)
    \o <<".price", ".attr.auto_vin .valu", ".attr.auto_miles .valu",
         ".attr.auto_cylinders .valu", ".attr.auto_drivetrain .valu",
         ".attr.auto_fuel_type .valu", ".attr.auto_paint .valu",
         ".attr.auto_transmission .valu", ".attr.auto_bodytype .valu",
         ".postingtitletext small", ".mapaddress", ".mapaddress a@href">>
    \o SubSeq(DateSelectors, 1, FallbackChain(DateResults(page)).consulted)

\* lines 313-408: extract_listing_details as a function of the URL and of the
\* page the browser loads: <<listing_data>>, or <<>> (None) when the visit
\* raises.
\* Mutant: a failing visit still yields a record.
ExtractListingDetails_IgnoresFailure(url, page) == <<BuildListingData(url, page)>>

ExtractListingDetails(url, page) ==
    IF page.navFails THEN <<>> ELSE <<BuildListingData(url, page)>>

\* A detail page: what the browser holds for each selector that
\* extract_listing_details looks up; NoElem where the selector matches
\* nothing.  time is the text of time.date.timeago, time_datetime and
\* time_title its attributes; mapaddress_a is the element .mapaddress a and
\* maplink its href.
EmptyPage ==
    [navFails |-> FALSE,
     t1 |-> NoElem, t2 |-> NoElem, t3 |-> NoElem, t4 |-> NoElem,
     price |-> NoElem, vin |-> NoElem, mileage |-> NoElem, cylinders |-> NoElem,
     drive |-> NoElem, fuel |-> NoElem, color |-> NoElem, transmission |-> NoElem,
     type |-> NoElem, small |-> NoElem, mapaddress |-> NoElem,
     mapaddress_a |-> NoElem, maplink |-> NoValue,
     time |-> NoElem, time_datetime |-> NoValue, time_title |-> NoValue,
     infodate |-> NoElem]

Title1 == <<"T", "1">>
Title2 == <<"T", "2">>
Title3 == <<"T", "3">>
Title4 == <<"T", "4">>
Date1 == <<"D", "1">>
Date2 == <<"D", "2">>
Date3 == <<"D", "3">>
Date4 == <<"D", "4">>
PriceText == <<"$", "1">>
VinText == <<"V", "1">>

\* Pages on which the four title strategies disagree.
TitlePages ==
    {[EmptyPage EXCEPT !.t1 = a, !.t2 = b, !.t3 = c, !.t4 = d] :
        a \in {NoElem, <<" ">>, Title1}, b \in {NoElem, Title2},
        c \in {NoElem, Title3}, d \in {NoElem, Title4}}

\* Pages on which the four posting date strategies disagree.
DatePages ==
    {[EmptyPage EXCEPT !.time = c, !.time_datetime = a, !.time_title = b,
                       !.infodate = d] :
        a \in {NoValue, <<>>, Date1}, b \in {NoValue, Date2},
        c \in {NoElem, <<>>, Date3}, d \in {NoElem, Date4}}

\* Pages with and without the three fields of the minimum-signal check.
SignalPages ==
    {[EmptyPage EXCEPT !.t1 = a, !.price = b, !.vin = c] :
        a \in {NoElem, Title1}, b \in {NoElem, <<" ">>, PriceText},
        c \in {NoElem, VinText}}

ParseTitles ==
    { <<"2", "0", "2", "1", " ", "F", "o", "r", "d", " ", "F", "-", "1", "5", "0", " ", "X", "L", "T">>,
      <<"G", "r", "e", "a", "t", " ", "D", "e", "a", "l", " ", "T", "r", "u", "c", "k">>,
      <<"2", "0", "2", "1", " ", "F", "o", "r", "d", " ", " ", "!">>,
      <<"2", "0", "2", "1", " ", "F", "o", "r", "d">>,
      <<"2", "0", "2", "1", " ", "F", "-", "1", "5", "0", " ", "X", "L", "T">>,
      <<"2", "0", "1", "9", " ", " ", "R", "A", "M", " ", "1", "5", "0", "0", " ", "4", "x", "4", "!">>,
      <<"2", "0", "2", "1", "5", " ", "F", "o", "r", "d", " ", "F">> }

ParsePages == {[EmptyPage EXCEPT !.t1 = t] : t \in ParseTitles}

PrimaryLocations == {NoElem, <<" ", "(", "B", "e", "n", "d", ")">>, <<"(", ")">>, <<"B", "e", "n", "d">>}

Addresses == {NoElem, <<"B", "e", "n", "d">>, <<"1", " ", "M", "a", "i", "n", " ", "(", "G", "o", "o", "g", "l", "e", " ", "M", "a", "p", ")">>, <<"g", "o", "o", "g", "l", "e", " ", "m", "a", "p">>, <<"g", "o", "o", "g", "l", "e", " ", "m", "a", "p", "\n", "B", "e", "n", "d">>}

LocationPages ==
    {[EmptyPage EXCEPT !.small = a, !.mapaddress = b] :
        a \in PrimaryLocations, b \in Addresses}

MapUrl == <<"h", "t", "t", "p", ":", "/", "/", "m">>

FullPage ==
    [EmptyPage EXCEPT !.t1 = Title1, !.price = PriceText, !.vin = VinText,
        !.mileage = <<"9">>, !.cylinders = <<"8">>, !.drive = <<"4", "w", "d">>,
        !.fuel = <<"g", "a", "s">>, !.color = <<"r", "e", "d">>,
        !.transmission = <<"a">>, !.type = <<"p">>,
        !.mapaddress_a = <<>>, !.maplink = MapUrl, !.time = Date3]

DetailPages ==
    TitlePages \cup DatePages \cup SignalPages \cup ParsePages \cup LocationPages
    \cup {FullPage, [FullPage EXCEPT !.maplink = NoValue],
          [FullPage EXCEPT !.maplink = Raises],
          [FullPage EXCEPT !.price = Raises, !.time_datetime = Raises],
          [FullPage EXCEPT !.navFails = TRUE]}

\* Listing URLs: the last path segment is a word, a file name, or empty.
UrlA == HrefAAbsolute
UrlB == <<"h", "t", "t", "p", ":", "/", "/", "c", "/", "d", "/", "b">>
UrlFile == <<"h", "t", "t", "p", ":", "/", "/", "c", "/", "d", "/", "f", "o", "r", "d", "-", "f", "1", "5", "0", ".", "h", "t", "m", "l">>
UrlSlash == <<"h", "t", "t", "p", ":", "/", "/", "c", "/", "d", "/">>

DetailUrls == {UrlA, UrlFile, UrlSlash}

DetailInit ==
    /\ det_pc = "idle"
    /\ det_url = <<>>
    /\ det_page = EmptyPage
    /\ det_result = <<>>
    /\ det_lookups = <<>>

\* lines 313-317: driver.get(listing_url); a failing navigation is caught at
\* line 406 and None is returned
DetailNavigate ==
    /\ det_pc = "idle"
    /\ \E url \in DetailUrls, page \in DetailPages :
        /\ det_url' = url
        /\ det_page' = page
        /\ det_pc' = IF page.navFails THEN "done" ELSE "loaded"
    /\ det_result' = <<>>
    /\ det_lookups' = <<>>

\* lines 319-404: the lookups and the return of listing_data
DetailExtract ==
    /\ det_pc = "loaded"
    /\ det_result' = ExtractListingDetails(det_url, det_page)
    /\ det_lookups' = DetailLookups(det_page)
    /\ det_pc' = "done"
    /\ UNCHANGED <<det_url, det_page>>

(***************************************************************************)
(* The enumerate-then-visit pipeline: CraigslistScraper.scrape_craigslist. *)
(***************************************************************************)
\* lines 218-271: the list extract_listing_urls returns for a loaded page
ExtractListingUrls(page) ==
    LET u1 == ResultNodeUrls(FindContainers(page, 1), <<>>, SearchUrl)
        u2 == FirstAnchorUrls(FindContainers(page, 2), u1, SearchUrl)
        u3 == FirstAnchorUrls(FindContainers(page, 3), u2, SearchUrl)
    IN  IF ~NoUrlsYet(u1) THEN u1 ELSE IF ~NoUrlsYet(u2) THEN u2 ELSE u3

HrefFile == <<"/", "d", "/", "f", "o", "r", "d", "-", "f", "1", "5", "0", ".", "h", "t", "m", "l">>
HrefSlash == <<"/", "d", "/">>

\* Search pages of the pipeline runs: result nodes with one listing each.
RunContainers ==
    { Container({1}, <<Anchor(TRUE, HrefA)>>),
      Container({1}, <<Anchor(TRUE, HrefFile)>>),
      Container({1, 2}, <<Anchor(TRUE, HrefSlash)>>) }

RunSearchPages == SeqsUpTo(RunContainers, MaxContainers)

\* Detail pages of the pipeline runs: every lookup misses, only the price is
\* found, the visit fails.
RunDetailPages ==
    { EmptyPage, [EmptyPage EXCEPT !.price = PriceText],
      [EmptyPage EXCEPT !.navFails = TRUE] }

\* The max_listings argument: None (0) or a number (lines 947-950).
MaxListingsInputs == 0..2

\* line 444: listing_data and (title or price or vin); data is <<>> for None
KeepsRecord(data) ==
    /\ data # <<>>
    /\ (data[1].title # <<>> \/ data[1].price # <<>> \/ data[1].vin # <<>>)

\* Mutant: the maximum is ignored.
Truncate_Never(urls, max) == urls

\* lines 424-425: the truncated URL list
Truncate(urls, max) ==
    IF max # 0 /\ Len(urls) > max THEN SubSeq(urls, 1, max) ELSE urls

\* Mutant: the finally clause does nothing.
FinallyQuits_Never(driver) == 0

\* lines 469-471: the number of driver.quit() calls of the finally clause:
\* one if self.driver is set
FinallyQuits(driver) == IF driver = "live" THEN 1 ELSE 0

\* self.driver after the finally clause
AfterFinally(driver) == IF FinallyQuits(driver) = 1 THEN "quit" ELSE driver

CraigslistInit ==
    /\ c_pc = "idle"
    /\ c_driver = "none"
    /\ quit_calls = 0
    /\ max_listings = 0
    /\ c_urls = <<>>
    /\ c_i = 0
    /\ all_listings = <<>>
    /\ visited = <<>>
    /\ c_result = <<>>
    /\ c_found = <<>>

\* Mutant: the run goes on to discovery whatever setup_driver returned.
AfterSetup_GoesOn(setupOk) == "discover"

\* lines 413-414: if not self.setup_driver(headless=True): return []
AfterSetup(setupOk) == IF setupOk THEN "discover" ELSE "done"

\* lines 410-414 and 160-193: setup_driver; without a browser the run returns
\* the empty list (the finally clause finds no driver to quit)
ScrapeStart ==
    /\ c_pc = "idle"
    /\ \E max \in MaxListingsInputs, setupOk \in BOOLEAN :
        /\ max_listings' = max
        /\ c_driver' = IF setupOk THEN "live" ELSE "none"
        /\ c_pc' = AfterSetup(setupOk)
        /\ quit_calls' = IF setupOk THEN quit_calls
                         ELSE quit_calls + FinallyQuits("none")
    /\ UNCHANGED <<c_urls, c_i, all_listings, visited, c_result, c_found>>

\* lines 416-417: extract_listing_urls; a failing driver.get raises, the run
\* returns the empty list (line 467) and the finally clause quits the browser
ScrapeDiscover ==
    /\ c_pc = "discover"
    /\ \E page \in RunSearchPages, navFails \in BOOLEAN :
        IF navFails
        THEN /\ c_pc' = "done"
             /\ c_driver' = AfterFinally(c_driver)
             /\ quit_calls' = quit_calls + FinallyQuits(c_driver)
             /\ UNCHANGED <<c_urls, c_found>>
        ELSE /\ c_urls' = ExtractListingUrls(page)
             /\ c_found' = ExtractListingUrls(page)
             /\ c_pc' = "limit"
             /\ UNCHANGED <<c_driver, quit_calls>>
    /\ UNCHANGED <<max_listings, c_i, all_listings, visited, c_result>>

\* lines 419-436: no URL ends the run (return [], finally quit); otherwise
\* the list is truncated to max_listings
ScrapeLimit ==
    /\ c_pc = "limit"
    /\ IF c_urls = <<>>
       THEN /\ c_pc' = "done"
            /\ c_driver' = AfterFinally(c_driver)
            /\ quit_calls' = quit_calls + FinallyQuits(c_driver)
            /\ UNCHANGED c_urls
       ELSE /\ c_urls' = Truncate(c_urls, max_listings)
            /\ c_pc' = "visit"
            /\ UNCHANGED <<c_driver, quit_calls>>
    /\ UNCHANGED <<max_listings, c_i, all_listings, visited, c_result, c_found>>

\* lines 438-458: one iteration of the loop over the URLs
ScrapeVisit ==
    /\ c_pc = "visit"
    /\ \E page \in RunDetailPages :
        LET listing_data == ExtractListingDetails(c_urls[c_i + 1], page)
        IN  /\ visited' = Append(visited, [url |-> c_urls[c_i + 1], page |-> page])
            /\ all_listings' = IF KeepsRecord(listing_data)
                               THEN Collect(all_listings, listing_data[1])
                               ELSE all_listings
    /\ c_i' = c_i + 1
    /\ c_pc' = IF c_i + 1 < Len(c_urls) THEN "visit" ELSE "finish"
    /\ UNCHANGED <<c_driver, quit_calls, max_listings, c_urls, c_result, c_found>>

\* lines 460-471: return all_listings; the finally clause quits the browser
ScrapeFinish ==
    /\ c_pc = "finish"
    /\ c_result' = all_listings
    /\ c_driver' = AfterFinally(c_driver)
    /\ quit_calls' = quit_calls + FinallyQuits(c_driver)
    /\ c_pc' = "done"
    /\ UNCHANGED <<max_listings, c_urls, c_i, all_listings, visited, c_found>>

(***************************************************************************)
(* The scroll-then-bulk-extract orchestrator:                              *)
(* FacebookMarketplaceScraper.scrape_facebook_marketplace and the part of  *)
(* main that runs it.  The two st.button widgets are inputs of a run.      *)
(***************************************************************************)
NoFile == <<"<no file>">>
Unreadable == <<"<unreadable>">>

\* A stored cookie is "good" or "bad": add_cookie raises on a bad one.
CookieLists == SeqsUpTo({"good", "bad"}, MaxCookies)

SessionFiles == {NoFile, Unreadable} \cup CookieLists

Event(op, ctx, arg) == [op |-> op, ctx |-> ctx, arg |-> arg]

\* lines 557-561: one add_cookie per stored cookie, a failure is skipped
\* Mutant: the first failing add_cookie ends the loop.
AddCookies_StopAtFailure(cookies, ctx) ==
    LET bad == {k \in 1..Len(cookies) : cookies[k] # "good"}
        last == IF bad = {} THEN Len(cookies)
                ELSE CHOOSE k \in bad : \A j \in bad : k <= j
    IN  [k \in 1..last |->
            Event(IF cookies[k] = "good" THEN "add_cookie" ELSE "add_cookie_failed", ctx, k)]

AddCookies(cookies, ctx) ==
    [k \in 1..Len(cookies) |->
        Event(IF cookies[k] = "good" THEN "add_cookie" ELSE "add_cookie_failed", ctx, k)]

\* Mutant: the cookies are added before the navigation to the site root.
LoadSession_CookiesFirst(file, ctx, rootFails) ==
    IF file = NoFile \/ file = Unreadable \/ rootFails
    THEN [loaded |-> FALSE, events |-> <<Event("load_session", ctx, 0)>>]
    ELSE [loaded |-> TRUE,
          events |-> AddCookies(file, ctx)
                     \o <<Event("get_root", ctx, 0), Event("load_session", ctx, 1)>>]

\* lines 542-567: load_session on browser context ctx: what it does in the
\* browser, closed by the event of its return (arg 1 for True, 0 for False)
LoadSession(file, ctx, rootFails) ==
    IF file = NoFile THEN [loaded |-> FALSE, events |-> <<Event("load_session", ctx, 0)>>]
    ELSE IF file = Unreadable
         THEN [loaded |-> FALSE, events |-> <<Event("load_session", ctx, 0)>>]
    ELSE IF rootFails
         THEN [loaded |-> FALSE, events |-> <<Event("load_session", ctx, 0)>>]
    ELSE [loaded |-> TRUE,
          events |-> <<Event("get_root", ctx, 0)>> \o AddCookies(file, ctx)
                     \o <<Event("load_session", ctx, 1)>>]

\* line 792: where the run goes after the headless attempt
AfterCleanup_Retry(success) == IF success THEN "wait" ELSE "headless"

AfterCleanup(success) == IF success THEN "wait" ELSE "visible"

FacebookInit ==
    /\ f_pc = "idle"
    /\ runs = 0
    /\ session_file \in SessionFiles
    /\ fb_driver = 0
    /\ live_contexts = {}
    /\ contexts = 0
    /\ session_exists = FALSE
    /\ session_loaded = FALSE
    /\ headless_success = FALSE
    /\ test_count = NoCount
    /\ fb_driver_ready = FALSE
    /\ fb_driver_instance = 0
    /\ fb_log = <<>>
    /\ fb_result = "none"

\* lines 1084-1089 and 758-763: a new scraper starts a run
FbStart ==
    /\ f_pc = "idle"
    /\ runs < MaxRuns
    /\ session_exists' = (session_file # NoFile)
    /\ headless_success' = FALSE
    /\ session_loaded' = FALSE
    /\ test_count' = NoCount
    /\ fb_driver' = 0
    /\ contexts' = 0
    /\ fb_log' = <<>>
    /\ fb_result' = "none"
    /\ f_pc' = IF session_file # NoFile THEN "headless" ELSE "visible"
    /\ UNCHANGED <<runs, session_file, live_contexts, fb_driver_ready,
                   fb_driver_instance>>

\* lines 479-528: how setup_facebook_driver can end: "ok" returns the
\* driver; "none" fails before line 518 created a browser; "raised" fails in
\* line 521, after line 518 stored the new browser in self.driver
SetupOutcomes == {"ok", "none", "raised"}

\* line 765: setup_facebook_driver(headless=True); the event's arg is 1 if
\* the set-up raised after the browser was created
FbHeadlessSetup ==
    /\ f_pc = "headless"
    /\ \E setup \in SetupOutcomes :
        IF setup # "none"
        THEN /\ contexts' = contexts + 1
             /\ fb_driver' = contexts + 1
             /\ live_contexts' = live_contexts \cup {contexts + 1}
             /\ fb_log' = Append(fb_log, Event("headless", contexts + 1,
                                               IF setup = "ok" THEN 0 ELSE 1))
             /\ f_pc' = IF setup = "ok" THEN "replay" ELSE "cleanup"
        ELSE /\ fb_log' = Append(fb_log, Event("headless", 0, 0))
             /\ f_pc' = "cleanup"
             /\ UNCHANGED <<contexts, fb_driver, live_contexts>>
    /\ UNCHANGED <<runs, session_file, session_exists, session_loaded,
                   headless_success, test_count, fb_driver_ready,
                   fb_driver_instance, fb_result>>

\* lines 768-770 and 783-784: load_session in the headless browser
FbLoadSession ==
    /\ f_pc = "replay"
    /\ \E rootFails \in BOOLEAN :
        LET r == LoadSession(session_file, fb_driver, rootFails)
        IN  /\ session_loaded' = r.loaded
            /\ fb_log' = fb_log \o r.events
            /\ f_pc' = IF r.loaded THEN "probe" ELSE "cleanup"
    /\ UNCHANGED <<runs, session_file, fb_driver, live_contexts, contexts,
                   session_exists, headless_success, test_count,
                   fb_driver_ready, fb_driver_instance, fb_result>>

\* lines 773-782: navigate to the marketplace and count; a failing
\* navigation raises into the handler of lines 868-872
FbProbe ==
    /\ f_pc = "probe"
    /\ \E getFails \in BOOLEAN, count \in {0, 5} :
        IF getFails
        THEN /\ fb_result' = "empty"
             /\ f_pc' = "finally"
             /\ UNCHANGED <<fb_log, test_count, headless_success>>
        ELSE /\ fb_log' = Append(fb_log, Event("get_market", fb_driver, 0))
             /\ test_count' = count
             /\ headless_success' = (count > 0)
             /\ f_pc' = "cleanup"
             /\ UNCHANGED fb_result
    /\ UNCHANGED <<runs, session_file, fb_driver, live_contexts, contexts,
                   session_exists, session_loaded, fb_driver_ready,
                   fb_driver_instance>>

\* Mutant: the failed headless browser is left open.
QuitsHeadless_Never(success, driver) == FALSE

\* line 787: the failed attempt's browser is quit if there is one
QuitsHeadless(success, driver) == ~success /\ driver # 0

\* lines 786-792: quit the headless browser if the attempt failed
FbCloseHeadless ==
    /\ f_pc = "cleanup"
    /\ IF QuitsHeadless(headless_success, fb_driver)
       THEN /\ live_contexts' = live_contexts \ {fb_driver}
            /\ fb_log' = Append(fb_log, Event("quit", fb_driver, 0))
            /\ fb_driver' = 0
       ELSE UNCHANGED <<live_contexts, fb_log, fb_driver>>
    /\ f_pc' = AfterCleanup(headless_success)
    /\ UNCHANGED <<runs, session_file, contexts, session_exists,
                   session_loaded, headless_success, test_count,
                   fb_driver_ready, fb_driver_instance, fb_result>>

\* lines 792-807: visible mode shows the instructions and the fb_login button
FbVisibleMode ==
    /\ f_pc = "visible"
    /\ \E fb_login \in BOOLEAN :
        /\ fb_log' = Append(fb_log, Event("visible", 0, IF fb_login THEN 1 ELSE 0))
        /\ f_pc' = IF fb_login THEN "login" ELSE "checkpoint"
    /\ UNCHANGED <<runs, session_file, fb_driver, live_contexts, contexts,
                   session_exists, session_loaded, headless_success,
                   test_count, fb_driver_ready, fb_driver_instance, fb_result>>

\* lines 808-820: open the login browser (the open_login event has arg 1 if
\* the set-up failed, and context 0 if no browser was created), load_session
\* again, open the site root (get_root_login) and record the driver in
\* st.session_state (checkpoint)
FbOpenLogin ==
    /\ f_pc = "login"
    /\ \E setup \in SetupOutcomes, rootFails \in BOOLEAN, openFails \in BOOLEAN :
        IF setup = "none"
        THEN /\ fb_log' = Append(fb_log, Event("open_login", 0, 1))
             /\ f_pc' = "checkpoint"
             /\ UNCHANGED <<contexts, fb_driver, live_contexts,
                            fb_driver_ready, fb_driver_instance, fb_result>>
        ELSE IF setup = "raised"
        THEN /\ contexts' = contexts + 1
             /\ fb_driver' = contexts + 1
             /\ live_contexts' = live_contexts \cup {contexts + 1}
             /\ fb_log' = Append(fb_log, Event("open_login", contexts + 1, 1))
             /\ f_pc' = "checkpoint"
             /\ UNCHANGED <<fb_driver_ready, fb_driver_instance, fb_result>>
        ELSE LET ctx == contexts + 1
                 r == LoadSession(session_file, ctx, rootFails)
             IN  /\ contexts' = ctx
                 /\ fb_driver' = ctx
                 /\ live_contexts' = live_contexts \cup {ctx}
                 /\ IF openFails
                    THEN /\ fb_log' = (Append(fb_log, Event("open_login", ctx, 0))
                                          \o r.events)
                         /\ fb_result' = "empty"
                         /\ f_pc' = "finally"
                         /\ UNCHANGED <<fb_driver_ready, fb_driver_instance>>
                    ELSE /\ fb_log' = (Append(fb_log, Event("open_login", ctx, 0))
                                          \o r.events
                                          \o <<Event("get_root_login", ctx, 0),
                                               Event("checkpoint", ctx, 0)>>)
                         /\ fb_driver_ready' = TRUE
                         /\ fb_driver_instance' = ctx
                         /\ f_pc' = "checkpoint"
                         /\ UNCHANGED fb_result
    /\ UNCHANGED <<runs, session_file, session_exists, session_loaded,
                   headless_success, test_count>>

\* Mutant: the marketplace is opened before the session is saved.
ContinueEvents_NavigateFirst(ctx, saveOk, getFails) ==
    <<Event("ready", ctx, 0)>>
    \o (IF getFails THEN <<>>
        ELSE <<Event("get_market", ctx, 0),
               Event("save_session", ctx, IF saveOk THEN 1 ELSE 0)>>)

\* lines 824-835: what the pressed fb_continue button does in browser ctx:
\* save_session (arg 1 if the file was written), then the navigation to the
\* marketplace, which is not logged if it raises
ContinueEvents(ctx, saveOk, getFails) ==
    <<Event("ready", ctx, 0), Event("save_session", ctx, IF saveOk THEN 1 ELSE 0)>>
    \o (IF getFails THEN <<>> ELSE <<Event("get_market", ctx, 0)>>)

\* lines 822-841: the fb_continue button, shown only if the driver is ready
FbContinue ==
    /\ f_pc = "checkpoint"
    /\ IF ~fb_driver_ready
       THEN /\ fb_result' = "empty"
            /\ f_pc' = "finally"
            /\ UNCHANGED <<fb_driver, session_file, fb_log>>
       ELSE \E fb_continue \in BOOLEAN, saveOk \in BOOLEAN,
               cookies \in CookieLists, getFails \in BOOLEAN :
            IF ~fb_continue
            THEN /\ f_pc' = "wait"
                 /\ UNCHANGED <<fb_driver, session_file, fb_log, fb_result>>
            ELSE /\ fb_driver' = fb_driver_instance
                 /\ session_file' = IF saveOk THEN cookies ELSE session_file
                 /\ fb_log' = fb_log \o ContinueEvents(fb_driver_instance, saveOk, getFails)
                 /\ IF getFails
                    THEN /\ fb_result' = "empty"
                         /\ f_pc' = "finally"
                    ELSE /\ f_pc' = "wait"
                         /\ UNCHANGED fb_result
    /\ UNCHANGED <<runs, live_contexts, contexts, session_exists,
                   session_loaded, headless_success, test_count,
                   fb_driver_ready, fb_driver_instance>>

\* lines 843-861: the initial counts and the call of wait_and_scroll
FbWaitAndScroll ==
    /\ f_pc = "wait"
    /\ fb_log' = Append(fb_log, Event("wait_and_scroll", fb_driver, 0))
    /\ f_pc' = "extract"
    /\ UNCHANGED <<runs, session_file, fb_driver, live_contexts, contexts,
                   session_exists, session_loaded, headless_success,
                   test_count, fb_driver_ready, fb_driver_instance, fb_result>>

\* lines 863-866: the call of extract_all_listings and the return
FbExtractAll ==
    /\ f_pc = "extract"
    /\ fb_log' = Append(fb_log, Event("extract_all_listings", fb_driver, 0))
    /\ fb_result' = "listings"
    /\ f_pc' = "finally"
    /\ UNCHANGED <<runs, session_file, fb_driver, live_contexts, contexts,
                   session_exists, session_loaded, headless_success,
                   test_count, fb_driver_ready, fb_driver_instance>>

\* lines 874-879: the finally clause clears st.session_state
FbFinally ==
    /\ f_pc = "finally"
    /\ fb_driver_ready' = FALSE
    /\ fb_driver_instance' = 0
    /\ f_pc' = "returned"
    /\ UNCHANGED <<runs, session_file, fb_driver, live_contexts, contexts,
                   session_exists, session_loaded, headless_success,
                   test_count, fb_log, fb_result>>

\* lines 1133-1135: main quits the scraper's driver if there is one
FbMainCleanup ==
    /\ f_pc = "returned"
    /\ IF fb_driver # 0
       THEN /\ live_contexts' = live_contexts \ {fb_driver}
            /\ fb_log' = Append(fb_log, Event("quit", fb_driver, 0))
       ELSE UNCHANGED <<live_contexts, fb_log>>
    /\ runs' = runs + 1
    /\ f_pc' = "idle"
    /\ UNCHANGED <<session_file, fb_driver, contexts, session_exists,
                   session_loaded, headless_success, test_count,
                   fb_driver_ready, fb_driver_instance, fb_result>>

(***************************************************************************)
(* Specifications: one per component, the others idle.                     *)
(***************************************************************************)
Idle ==
    /\ ScrollInit /\ BulkInit /\ DiscInit /\ DetailInit /\ CraigslistInit
    /\ FacebookInit /\ session_file = NoFile

\* The initial state of the marketplace runs: any stored session file.
FacebookIdle ==
    /\ ScrollInit /\ BulkInit /\ DiscInit /\ DetailInit /\ CraigslistInit
    /\ FacebookInit

ScrollNext ==
    \/ WaitAndScrollCall /\ UNCHANGED <<bulkVars, discVars, detVars, clVars, fbVars>>
    \/ ScrollIteration /\ UNCHANGED <<bulkVars, discVars, detVars, clVars, fbVars>>
    \/ ScrollReturn /\ UNCHANGED <<bulkVars, discVars, detVars, clVars, fbVars>>

ScrollSpec == Idle /\ [][ScrollNext]_vars

FairScrollSpec == ScrollSpec /\ WF_vars(ScrollNext)

BulkNext ==
    \/ ExtractAllListingsEnter /\ UNCHANGED <<scrollVars, discVars, detVars, clVars, fbVars>>
    \/ ExtractAllListingsIteration /\ UNCHANGED <<scrollVars, discVars, detVars, clVars, fbVars>>

BulkSpec == Idle /\ [][BulkNext]_vars

DiscoverNext ==
    \/ ExtractListingUrlsEnter /\ UNCHANGED <<scrollVars, bulkVars, detVars, clVars, fbVars>>
    \/ DiscoverResultNodes /\ UNCHANGED <<scrollVars, bulkVars, detVars, clVars, fbVars>>
    \/ DiscoverSearchResults /\ UNCHANGED <<scrollVars, bulkVars, detVars, clVars, fbVars>>
    \/ DiscoverPidElements /\ UNCHANGED <<scrollVars, bulkVars, detVars, clVars, fbVars>>
    \/ ExtractListingUrlsReturn /\ UNCHANGED <<scrollVars, bulkVars, detVars, clVars, fbVars>>

DiscoverSpec == Idle /\ [][DiscoverNext]_vars

DetailNext ==
    \/ DetailNavigate /\ UNCHANGED <<scrollVars, bulkVars, discVars, clVars, fbVars>>
    \/ DetailExtract /\ UNCHANGED <<scrollVars, bulkVars, discVars, clVars, fbVars>>

DetailSpec == Idle /\ [][DetailNext]_vars

CraigslistNext ==
    \/ ScrapeStart /\ UNCHANGED <<scrollVars, bulkVars, discVars, detVars, fbVars>>
    \/ ScrapeDiscover /\ UNCHANGED <<scrollVars, bulkVars, discVars, detVars, fbVars>>
    \/ ScrapeLimit /\ UNCHANGED <<scrollVars, bulkVars, discVars, detVars, fbVars>>
    \/ ScrapeVisit /\ UNCHANGED <<scrollVars, bulkVars, discVars, detVars, fbVars>>
    \/ ScrapeFinish /\ UNCHANGED <<scrollVars, bulkVars, discVars, detVars, fbVars>>

CraigslistSpec == Idle /\ [][CraigslistNext]_vars

\* A run of either pipeline: main starts the enumerate-then-visit pipeline
\* (lines 960-972) or the bulk extraction (lines 1076-1089), one at a time.
PipelinesNext ==
    \/ bk_pc = "idle" /\ ScrapeStart
          /\ UNCHANGED <<scrollVars, bulkVars, discVars, detVars, fbVars>>
    \/ bk_pc = "idle" /\ ScrapeDiscover
          /\ UNCHANGED <<scrollVars, bulkVars, discVars, detVars, fbVars>>
    \/ bk_pc = "idle" /\ ScrapeLimit
          /\ UNCHANGED <<scrollVars, bulkVars, discVars, detVars, fbVars>>
    \/ bk_pc = "idle" /\ ScrapeVisit
          /\ UNCHANGED <<scrollVars, bulkVars, discVars, detVars, fbVars>>
    \/ bk_pc = "idle" /\ ScrapeFinish
          /\ UNCHANGED <<scrollVars, bulkVars, discVars, detVars, fbVars>>
    \/ c_pc = "idle" /\ ExtractAllListingsEnter
          /\ UNCHANGED <<scrollVars, discVars, detVars, clVars, fbVars>>
    \/ c_pc = "idle" /\ ExtractAllListingsIteration
          /\ UNCHANGED <<scrollVars, discVars, detVars, clVars, fbVars>>

PipelinesSpec == Idle /\ [][PipelinesNext]_vars

FacebookNext ==
    \/ FbStart /\ UNCHANGED <<scrollVars, bulkVars, discVars, detVars, clVars>>
    \/ FbHeadlessSetup /\ UNCHANGED <<scrollVars, bulkVars, discVars, detVars, clVars>>
    \/ FbLoadSession /\ UNCHANGED <<scrollVars, bulkVars, discVars, detVars, clVars>>
    \/ FbProbe /\ UNCHANGED <<scrollVars, bulkVars, discVars, detVars, clVars>>
    \/ FbCloseHeadless /\ UNCHANGED <<scrollVars, bulkVars, discVars, detVars, clVars>>
    \/ FbVisibleMode /\ UNCHANGED <<scrollVars, bulkVars, discVars, detVars, clVars>>
    \/ FbOpenLogin /\ UNCHANGED <<scrollVars, bulkVars, discVars, detVars, clVars>>
    \/ FbContinue /\ UNCHANGED <<scrollVars, bulkVars, discVars, detVars, clVars>>
    \/ FbWaitAndScroll /\ UNCHANGED <<scrollVars, bulkVars, discVars, detVars, clVars>>
    \/ FbExtractAll /\ UNCHANGED <<scrollVars, bulkVars, discVars, detVars, clVars>>
    \/ FbFinally /\ UNCHANGED <<scrollVars, bulkVars, discVars, detVars, clVars>>
    \/ FbMainCleanup /\ UNCHANGED <<scrollVars, bulkVars, discVars, detVars, clVars>>

FacebookSpec == FacebookIdle /\ [][FacebookNext]_vars

\* Runs of either scraper from their start: one enumerate run, or bulk runs.
RunsNext ==
    \/ (f_pc = "idle" /\ runs = 0) /\ ScrapeStart
          /\ UNCHANGED <<scrollVars, bulkVars, discVars, detVars, fbVars>>
    \/ f_pc = "idle" /\ ScrapeDiscover
          /\ UNCHANGED <<scrollVars, bulkVars, discVars, detVars, fbVars>>
    \/ f_pc = "idle" /\ ScrapeLimit
          /\ UNCHANGED <<scrollVars, bulkVars, discVars, detVars, fbVars>>
    \/ f_pc = "idle" /\ ScrapeVisit
          /\ UNCHANGED <<scrollVars, bulkVars, discVars, detVars, fbVars>>
    \/ f_pc = "idle" /\ ScrapeFinish
          /\ UNCHANGED <<scrollVars, bulkVars, discVars, detVars, fbVars>>
    \/ c_pc = "idle" /\ FbStart
          /\ UNCHANGED <<scrollVars, bulkVars, discVars, detVars, clVars>>
    \/ c_pc = "idle" /\ FbHeadlessSetup
          /\ UNCHANGED <<scrollVars, bulkVars, discVars, detVars, clVars>>
    \/ c_pc = "idle" /\ FbLoadSession
          /\ UNCHANGED <<scrollVars, bulkVars, discVars, detVars, clVars>>
    \/ c_pc = "idle" /\ FbProbe
          /\ UNCHANGED <<scrollVars, bulkVars, discVars, detVars, clVars>>
    \/ c_pc = "idle" /\ FbCloseHeadless
          /\ UNCHANGED <<scrollVars, bulkVars, discVars, detVars, clVars>>
    \/ c_pc = "idle" /\ FbVisibleMode
          /\ UNCHANGED <<scrollVars, bulkVars, discVars, detVars, clVars>>
    \/ c_pc = "idle" /\ FbOpenLogin
          /\ UNCHANGED <<scrollVars, bulkVars, discVars, detVars, clVars>>
    \/ c_pc = "idle" /\ FbContinue
          /\ UNCHANGED <<scrollVars, bulkVars, discVars, detVars, clVars>>
    \/ c_pc = "idle" /\ FbWaitAndScroll
          /\ UNCHANGED <<scrollVars, bulkVars, discVars, detVars, clVars>>
    \/ c_pc = "idle" /\ FbExtractAll
          /\ UNCHANGED <<scrollVars, bulkVars, discVars, detVars, clVars>>
    \/ c_pc = "idle" /\ FbFinally
          /\ UNCHANGED <<scrollVars, bulkVars, discVars, detVars, clVars>>
    \/ c_pc = "idle" /\ FbMainCleanup
          /\ UNCHANGED <<scrollVars, bulkVars, discVars, detVars, clVars>>

RunsSpec == FacebookIdle /\ [][RunsNext]_vars

(***************************************************************************)
(* Claims about the scroll convergence controller.                         *)
(***************************************************************************)
\* The count the attempt i is compared with: the count of attempt i-1, and
\* the initial last_count (0) for the first attempt.
PrevCount(i) == IF i = 1 THEN 0 ELSE observed[i - 1]

Stalled(i) == observed[i] = PrevCount(i)

\* Every call of the count function of this scroll session returned 5.
ConstantFeedOfFive ==
    /\ sc_pc = "done"
    /\ scroll_attempts = 10
    /\ \A i \in 1..Len(observed) : observed[i] = 5
    /\ final_count = 5

\* C5 as stated: on a feed that shows 5 listings on every call and with
\* scroll_attempts = 10, wait_and_scroll has made exactly 3 attempts when it
\* stops, and returns 5.
C5_StopsAfterThreeAttempts ==
    ConstantFeedOfFive => (attempt = 3 /\ final_count = 5)

\* C5 amended: on that feed wait_and_scroll stops by the stall limit in its
\* 4th attempt (the first attempt differs from the initial count 0, the next
\* three are stalls), after exactly 3 scroll actions, and returns 5.
C5_StopsInFourthAttempt ==
    ConstantFeedOfFive =>
        /\ attempt = 4
        /\ Len(observed) = 4
        /\ scrolls = 3
        /\ outcome = "stall"
        /\ final_count = 5

C5_Witness == ConstantFeedOfFive

C7_ScrollTerminates ==
    /\ [](/\ attempt <= scroll_attempts
          /\ scrolls <= scroll_attempts
          /\ (sc_pc = "done" => outcome \in {"stall", "cap"} /\ final_count \in Nat))
    /\ ((sc_pc = "loop") ~> (sc_pc = "done"))

\* A feed that changes on every call runs into the cap.
C7_Witness ==
    /\ sc_pc = "done"
    /\ outcome = "cap"
    /\ scroll_attempts = MaxScrollAttempts
    /\ attempt = scroll_attempts
    /\ scrolls = scroll_attempts
    /\ \A i \in 1..Len(observed) : ~Stalled(i)

\* C16: on the stall outcome and on the cap outcome wait_and_scroll returns
\* the result of the last get_listing_count call of the session, which is
\* the call made after the loop.
C16_ReturnsFinalCount ==
    sc_pc = "done" =>
        /\ outcome \in {"stall", "cap"}
        /\ Len(count_calls) = Len(observed) + 1
        /\ SubSeq(count_calls, 1, Len(observed)) = observed
        /\ final_count = count_calls[Len(count_calls)]

\* A session left by the stall limit whose final count is higher than the
\* count of its last attempt.
C16_Witness ==
    /\ sc_pc = "done"
    /\ outcome = "stall"
    /\ Len(observed) > FreeCalls
    /\ final_count = observed[Len(observed)] + 1

\* The stall streak after attempt k if every attempt that does not increase
\* the count is a stall and only an increase resets the streak.
RECURSIVE StreakOfNoIncrease(_)
StreakOfNoIncrease(k) ==
    IF k = 0 THEN 0
    ELSE IF observed[k] > PrevCount(k) THEN 0
    ELSE StreakOfNoIncrease(k - 1) + 1

\* C19 as stated: after every attempt the stall streak counts the attempts,
\* up to this one, whose count did not increase (equal or lower), and it is 0
\* only after an attempt whose count is greater than the previous one.
C19_NoIncreaseIsStall ==
    no_change_count = StreakOfNoIncrease(Len(observed))

(***************************************************************************)
(* Claims about the emitted records.                                       *)
(***************************************************************************)
\* The keys of the record built by CraigslistScraper.extract_listing_details
\* (lines 319-339): the fixed ListingRecord schema.
SchemaFields ==
    {"url", "title", "price", "year", "make", "model", "vin", "mileage",
     "cylinders", "drive", "fuel", "color", "transmission", "type", "location",
     "google_maps_link", "date_posted", "date_scraped", "source"}

\* C1 as stated, for the scroll-then-bulk-extract pipeline: every record of
\* extract_all_listings has every field of the schema as a key, and no field
\* holds a placeholder other than the empty string.
C1_BulkRecordsHaveSchema ==
    \A i \in 1..Len(listings) :
        /\ DOMAIN listings[i] = SchemaFields
        /\ \A f \in DOMAIN listings[i] : listings[i][f] # NA

\* The links that are read without a failure and point at url.
LinksTo(url) == {k \in 1..Len(marketplace_links) : marketplace_links[k].href = url}

FirstLinkTo(url) == CHOOSE k \in LinksTo(url) : \A m \in LinksTo(url) : k <= m

\* C10: extract_all_listings emits at most one record per URL, and the record
\* of a URL is the one built from the first container node, in document
\* order, that points at the URL; later nodes with that URL add nothing.
C10_OneRecordPerUrl ==
    /\ \A i, j \in 1..Len(listings) : listings[i].url = listings[j].url => i = j
    /\ \A i \in 1..Len(listings) :
          /\ LinksTo(listings[i].url) # {}
          /\ FirstLinkTo(listings[i].url) <= bk_i
          /\ listings[i] = BuildFacebookRecord(marketplace_links[FirstLinkTo(listings[i].url)])
    /\ Len(listings) =
          Cardinality({marketplace_links[k].href : k \in 1..bk_i} \ {Raises})

\* Two nodes with the same URL and different content were both handled.
C10_Witness ==
    /\ bk_pc = "done"
    /\ \E a, b \in 1..Len(marketplace_links) :
          /\ a < b
          /\ marketplace_links[a].href = marketplace_links[b].href
          /\ marketplace_links[a].href # Raises
          /\ BuildFacebookRecord(marketplace_links[a])
                # BuildFacebookRecord(marketplace_links[b])
    /\ Len(listings) = 1

(***************************************************************************)
(* Claims about URL discovery.                                             *)
(***************************************************************************)
\* What each strategy yields on the loaded page, taken alone.
Yield1 == ResultNodeUrls(FindContainers(search_page, 1), <<>>, SearchUrl)
Yield2 == FirstAnchorUrls(FindContainers(search_page, 2), <<>>, SearchUrl)
Yield3 == FirstAnchorUrls(FindContainers(search_page, 3), <<>>, SearchUrl)

\* C4: strategy 2 is queried only if strategy 1 produced no URL, strategy 3
\* only if strategies 1 and 2 both produced none, and the returned URLs are
\* the yield of the one strategy that was queried last.
C4_EscalationShortCircuit ==
    /\ InList(2, queried) => Yield1 = <<>>
    /\ InList(3, queried) => (Yield1 = <<>> /\ Yield2 = <<>>)
    /\ queried \in {<<>>, <<1>>, <<1, 2>>, <<1, 2, 3>>}
    /\ d_pc = "done" =>
          \/ queried = <<1>> /\ listing_urls = Yield1
          \/ queried = <<1, 2>> /\ listing_urls = Yield2
          \/ queried = <<1, 2, 3>> /\ listing_urls = Yield3

\* Strategy 1 found URLs, strategies 2 and 3 would have found other URLs and
\* were not queried.
C4_Witness ==
    /\ d_pc = "done"
    /\ queried = <<1>>
    /\ listing_urls # <<>>
    /\ Yield2 # <<>> /\ Yield2 # listing_urls
    /\ Yield3 # <<>>

\* The containers of the strategy that produced the returned list.
ContainersInEffect ==
    IF queried = <<>> THEN <<>>
    ELSE FindContainers(search_page, queried[Len(queried)])

\* The anchors of container c that the strategy in effect may take a URL
\* from: every a.cl-app-anchor under strategy 1, the first a element under
\* strategies 2 and 3.
AnchorsInEffect(c) ==
    IF c.stale THEN <<>>
    ELSE IF queried[Len(queried)] = 1
         THEN SelectSeq(c.anchors, LAMBDA a : a.app)
         ELSE IF c.anchors = <<>> THEN <<>> ELSE <<c.anchors[1]>>

\* Anchor a of the strategy in effect leads to the URL u.
LeadsTo(a, u) == IsDetailHref(a.href) /\ UrlJoin(SearchUrl, a.href) = u

NoDuplicates(list) ==
    \A p, q \in 1..Len(list) : list[p] = list[q] => p = q

\* The first container, in container order, with an anchor leading to u.
FirstOccurrence(u) ==
    CHOOSE k \in 1..Len(ContainersInEffect) :
        /\ \E i \in 1..Len(AnchorsInEffect(ContainersInEffect[k])) :
              LeadsTo(AnchorsInEffect(ContainersInEffect[k])[i], u)
        /\ \A j \in 1..(k - 1) :
              \A i \in 1..Len(AnchorsInEffect(ContainersInEffect[j])) :
                 ~LeadsTo(AnchorsInEffect(ContainersInEffect[j])[i], u)

\* C11 as stated: the returned list has no URL twice and lists the URLs in
\* the order of the first container in which each of them occurs.
C11_FirstOccurrenceOrder ==
    d_pc = "done" =>
        /\ NoDuplicates(listing_urls)
        /\ \A p, q \in 1..Len(listing_urls) :
              p < q => FirstOccurrence(listing_urls[p]) <= FirstOccurrence(listing_urls[q])

\* Container k gave the URL at position p of the list: the URL is that of
\* the first anchor of k that leads to a URL not listed before p.
TakenFrom(p, k) ==
    LET as == AnchorsInEffect(ContainersInEffect[k])
        fresh == {i \in 1..Len(as) :
                     /\ IsDetailHref(as[i].href)
                     /\ ~InList(UrlJoin(SearchUrl, as[i].href),
                                SubSeq(listing_urls, 1, p - 1))}
    IN  /\ fresh # {}
        /\ LeadsTo(as[CHOOSE i \in fresh : \A j \in fresh : i <= j], listing_urls[p])

\* C11, amended: the list never holds a URL twice, in any state of the
\* discovery, and the returned URLs are in the order in which the containers
\* gave them: every URL is the first not yet listed URL of a container, and
\* a later URL comes from a later container.
C11_UniqueInReadOrder ==
    /\ NoDuplicates(listing_urls)
    /\ d_pc = "done" =>
          \E f \in [1..Len(listing_urls) -> 1..Len(ContainersInEffect)] :
              /\ \A p, q \in 1..Len(listing_urls) : p < q => f[p] < f[q]
              /\ \A p \in 1..Len(listing_urls) : TakenFrom(p, f[p])

\* The second URL of the first node is met again and listed after the URL of
\* the node in between.
C11_Witness ==
    /\ d_pc = "done"
    /\ queried = <<1>>
    /\ Len(search_page) = 3
    /\ search_page[1] = search_page[3]
    /\ Len(listing_urls) = 3
    /\ FirstOccurrence(listing_urls[3]) = 1

(***************************************************************************)
(* Claims about the detail record and the enumerate-then-visit pipeline.   *)
(***************************************************************************)
\* The record of the enumerate-then-visit pipeline has every schema field
\* (the half of C1 that holds).
CraigslistRecordHasSchema ==
    \A i \in 1..Len(det_result) : DOMAIN det_result[i] = SchemaFields

\* Every title lookup, the price lookup and the vin lookup miss on the page.
NoSignal(page) ==
    /\ ~page.navFails
    /\ \A k \in 1..4 : TitleResults(page)[k] = <<>>
    /\ SafeFindElementText(page.price) = <<>>
    /\ SafeFindElementText(page.vin) = <<>>

\* C2 as stated: a detail page on which the title, price and vin lookups all
\* miss produces no record in the output of the run.
C2_NoSignalNoRecord ==
    \A k \in 1..c_i :
        NoSignal(visited[k].page) =>
            \A r \in 1..Len(all_listings) : all_listings[r].url # c_urls[k]

\* The first strategy of a chain that yields a non-empty value, 0 for none.
FirstHit(results) ==
    IF \A k \in 1..Len(results) : results[k] = <<>> THEN 0
    ELSE CHOOSE k \in 1..Len(results) :
            results[k] # <<>> /\ \A j \in 1..(k - 1) : results[j] = <<>>

InSelectors(selectors, x) == \E k \in 1..Len(selectors) : selectors[k] = x

\* The lookups of det_lookups that belong to the chain, in order.
ChainLookups(selectors) ==
    SelectSeq(det_lookups, LAMBDA x : InSelectors(selectors, x))

\* The chain committed to the first strategy that yields a value: its value
\* is the field, and exactly the strategies up to it were looked up.
CommitsToFirst(selectors, results, field) ==
    IF FirstHit(results) = 0
    THEN ChainLookups(selectors) = selectors
    ELSE /\ field = results[FirstHit(results)]
         /\ ChainLookups(selectors) = SubSeq(selectors, 1, FirstHit(results))

\* C3: for the title and for the posting date, the field is the result of the
\* first strategy, in listed order, that yields a non-empty value; a later
\* strategy is looked up only if every earlier one yielded the empty string.
C3_StrategyOrdering ==
    (det_pc = "done" /\ det_result # <<>>) =>
        /\ CommitsToFirst(TitleSelectors, TitleResults(det_page), det_result[1].title)
        /\ CommitsToFirst(DateSelectors, DateResults(det_page), det_result[1].date_posted)
        /\ FirstHit(DateResults(det_page)) = 0 => det_result[1].date_posted = <<>>

\* Strategy 1 of the title misses, strategies 2, 3 and 4 disagree.
C3_Witness ==
    /\ det_pc = "done"
    /\ det_result # <<>>
    /\ TitleResults(det_page) = <<<<>>, Title2, Title3, Title4>>
    /\ det_result[1].title = Title2

\* The records of list are those of longer, from the start.
IsPrefix(list, longer) ==
    Len(list) <= Len(longer) /\ list = SubSeq(longer, 1, Len(list))

\* The URLs visited so far are the first c_i URLs of the list, each once and
\* in order; a failed visit has no record; a run that began to visit ends
\* only after the last URL and returns the collected records.
VisitsContained ==
    /\ Len(visited) = c_i
    /\ \A k \in 1..c_i : visited[k].url = c_urls[k]
    /\ \A k \in 1..c_i : visited[k].page.navFails =>
          \A r \in 1..Len(all_listings) : all_listings[r].url # c_urls[k]
    /\ (c_i > 0 /\ c_pc # "visit") =>
          (c_pc \in {"finish", "done"} /\ c_i = Len(c_urls))
    /\ (c_i > 0 /\ c_pc = "done") => c_result = all_listings

\* C12: a failing visit yields no record for its URL and does not end the
\* run: every URL of the truncated list is visited exactly once, in order,
\* and no step of the run removes or changes a record already collected.
C12_FailureContained ==
    /\ []VisitsContained
    /\ [][IsPrefix(all_listings, all_listings')]_vars

\* A run of three URLs whose second visit failed: the first record is kept
\* and the third URL still gives one.
C12_Witness ==
    /\ c_pc = "done"
    /\ Len(c_urls) = 3
    /\ ~visited[1].page.navFails
    /\ visited[2].page.navFails
    /\ ~visited[3].page.navFails
    /\ Len(c_result) = 2
    /\ c_result[1].url = c_urls[1]
    /\ c_result[2].url = c_urls[3]

\* Position of url in the list of discovered URLs.
Discovered(url) == CHOOSE k \in 1..Len(c_urls) : c_urls[k] = url

\* The records keep the order of their sources: the URLs of the enumerate
\* pipeline's records are discovered URLs in increasing list position, the
\* records of the bulk pipeline are built from container nodes in increasing
\* document position.
RecordsInSourceOrder ==
    /\ \A r \in 1..Len(all_listings) : InList(all_listings[r].url, c_urls)
    /\ \A r, t \in 1..Len(all_listings) :
          r < t => Discovered(all_listings[r].url) < Discovered(all_listings[t].url)
    /\ c_pc = "done" => IsPrefix(c_result, all_listings)
    /\ \A i \in 1..Len(listings) :
          /\ LinksTo(listings[i].url) # {}
          /\ listings[i] = BuildFacebookRecord(marketplace_links[FirstLinkTo(listings[i].url)])
    /\ \A i, j \in 1..Len(listings) :
          i < j => FirstLinkTo(listings[i].url) < FirstLinkTo(listings[j].url)

\* C13: the records of the enumerate pipeline follow the order of the
\* discovered URL list, the records of the bulk pipeline follow the document
\* order of the container nodes, and no step of either pipeline moves a
\* record that is already in the output.
C13_OutputOrdering ==
    /\ []RecordsInSourceOrder
    /\ [][IsPrefix(all_listings, all_listings') /\ IsPrefix(listings, listings')]_vars

\* A run of the enumerate pipeline returned records for its first and third
\* URL, none for the second.
C13_Witness ==
    /\ c_pc = "done"
    /\ Len(c_urls) = 3
    /\ Len(c_result) = 2
    /\ Discovered(c_result[1].url) = 1
    /\ Discovered(c_result[2].url) = 3

\* A bulk extraction gave records for its first and third node, the second
\* node repeats the URL of the first.
C13_BulkOrderReached ==
    /\ bk_pc = "done"
    /\ Len(marketplace_links) = 3
    /\ Len(listings) = 2
    /\ marketplace_links[2].href = marketplace_links[1].href
    /\ FirstLinkTo(listings[2].url) = 3

\* The title found on the page shown, the empty string if no strategy found
\* one.
FoundTitle == IF FirstHit(TitleResults(det_page)) = 0 THEN <<>>
              ELSE TitleResults(det_page)[FirstHit(TitleResults(det_page))]

FordF150XLT ==
    <<"2", "0", "2", "1", " ", "F", "o", "r", "d", " ", "F", "-", "1", "5", "0", " ", "X", "L", "T">>
GreatDealTruck ==
    <<"G", "r", "e", "a", "t", " ", "D", "e", "a", "l", " ", "T", "r", "u", "c", "k">>

\* The two titles of the claim give the stated fields.
ParsesExamples(r) ==
    /\ r.title = FoundTitle
    /\ FoundTitle = FordF150XLT =>
          /\ r.year = <<"2", "0", "2", "1">>
          /\ r.make = <<"F", "o", "r", "d">>
          /\ r.model = <<"F", "-", "1", "5", "0", " ", "X", "L", "T">>
    /\ FoundTitle = GreatDealTruck =>
          (r.year = <<>> /\ r.make = <<>> /\ r.model = <<>>)

\* C14 as stated: the example titles parse as given, and in every record
\* year, make and model are all non-empty or all empty.
C14_AllOrNone ==
    (det_pc = "done" /\ det_result # <<>> /\ FoundTitle # <<>>) =>
        /\ ParsesExamples(det_result[1])
        /\ \/ det_result[1].year = <<>> /\ det_result[1].make = <<>>
                 /\ det_result[1].model = <<>>
           \/ det_result[1].year # <<>> /\ det_result[1].make # <<>>
                 /\ det_result[1].model # <<>>

AllIn(t, from, to, class) == \A i \in from..to : t[i] \in class

RestClass == Letters \cup Digits \cup {"-"} \cup Spaces

\* The title is four digits, whitespace up to a, letters up to b, whitespace
\* up to c and characters of the rest class up to d, and the record holds the
\* digits, the letters and the stripped rest; the rest goes as far as its
\* class allows and starts with whitespace only if nothing else is left.
ParsedAt(t, r, a, b, c, d) ==
    /\ (d = Len(t) \/ t[d + 1] \notin RestClass)
    /\ (t[c + 1] \in Spaces => d = c + 1)
    /\ r.year = SubSeq(t, 1, 4)
    /\ r.make = SubSeq(t, a + 1, b)
    /\ r.model = Strip(SubSeq(t, c + 1, d))

\* Some split of the title fits the leading pattern (the pattern matches).
HasLeadingPattern(t) ==
    /\ Len(t) >= 8
    /\ AllIn(t, 1, 4, Digits)
    /\ \E a \in 5..Len(t) : AllIn(t, 5, a, Spaces) /\
          \E b \in (a + 1)..Len(t) : AllIn(t, a + 1, b, Letters) /\
             \E c \in (b + 1)..Len(t) : AllIn(t, b + 1, c, Spaces) /\
                \E d \in (c + 1)..Len(t) : AllIn(t, c + 1, d, RestClass)

\* The record holds the parts of some split of the title.
ParsedFrom(t, r) ==
    \E a \in 5..Len(t) : AllIn(t, 5, a, Spaces) /\
       \E b \in (a + 1)..Len(t) : AllIn(t, a + 1, b, Letters) /\
          \E c \in (b + 1)..Len(t) : AllIn(t, b + 1, c, Spaces) /\
             \E d \in (c + 1)..Len(t) : AllIn(t, c + 1, d, RestClass) /\
                ParsedAt(t, r, a, b, c, d)

\* C14, amended: a found title is kept unchanged; if it fits the leading
\* pattern, year and make are the digits and the letters and model is the
\* stripped rest, which may be empty; if it does not, all three are empty.
\* Year and make are both empty or both non-empty, and model is non-empty
\* only if they are.
C14_TitleParsing ==
    (det_pc = "done" /\ det_result # <<>> /\ FoundTitle # <<>>) =>
        /\ ParsesExamples(det_result[1])
        /\ IF HasLeadingPattern(FoundTitle)
           THEN /\ ParsedFrom(FoundTitle, det_result[1])
                /\ det_result[1].year # <<>> /\ det_result[1].make # <<>>
           ELSE det_result[1].year = <<>> /\ det_result[1].make = <<>>
                   /\ det_result[1].model = <<>>

\* A title with two blanks and a character outside the rest class after the
\* make: year and make are set, model is empty.
C14_Witness ==
    /\ det_pc = "done"
    /\ det_result # <<>>
    /\ FoundTitle = <<"2", "0", "2", "1", " ", "F", "o", "r", "d", " ", " ", "!">>
    /\ det_result[1].year = <<"2", "0", "2", "1">>
    /\ det_result[1].make = <<"F", "o", "r", "d">>
    /\ det_result[1].model = <<>>

\* What a helper may not hand to its caller: None, or the failure of a lookup.
NotAString == {NoValue, NoElem, Raises}

\* The fields filled by one safe_find_element_text lookup, with the page's
\* answer for the selector.
SingleLookups(page) ==
    [price |-> page.price, vin |-> page.vin, mileage |-> page.mileage,
     cylinders |-> page.cylinders, drive |-> page.drive, fuel |-> page.fuel,
     color |-> page.color, transmission |-> page.transmission,
     type |-> page.type]

\* C15: no lookup of the helpers raises into the builder (a page that loaded
\* always gives a record), every value they return is a string, and it is
\* the empty string when the element is missing, when reading it fails and
\* when the attribute is absent.
C15_HelpersNeverRaise ==
    (det_pc = "done" /\ ~det_page.navFails) =>
        /\ det_result # <<>>
        /\ \A f \in DOMAIN det_result[1] : det_result[1][f] \notin NotAString
        /\ \A k \in 1..4 : /\ TitleResults(det_page)[k] \notin NotAString
                           /\ DateResults(det_page)[k] \notin NotAString
        /\ \A f \in DOMAIN SingleLookups(det_page) :
              SingleLookups(det_page)[f] \in {NoElem, Raises} => det_result[1][f] = <<>>
        /\ (det_page.mapaddress_a = NoElem \/ det_page.maplink \in {NoValue, Raises})
              => det_result[1].google_maps_link = <<>>

\* A page whose map link element exists and whose href read fails.
C15_Witness ==
    /\ det_pc = "done"
    /\ det_result # <<>>
    /\ det_page.mapaddress_a # NoElem
    /\ det_page.maplink = Raises
    /\ det_result[1].google_maps_link = <<>>
    /\ det_result[1].price # <<>>

(***************************************************************************)
(* Claims about the scroll-then-bulk-extract orchestrator.                 *)
(***************************************************************************)
\* Number of events of the run with the given operation.
Count(op) == Cardinality({k \in DOMAIN fb_log : fb_log[k].op = op})

\* C8: in a run whose replayed session showed zero listings after the
\* navigation to the marketplace URL, the headless replay is attempted once,
\* and visible mode is entered once: never twice, and exactly once as soon as
\* the run is past the headless clean-up.
C8_FallbackExactlyOnce ==
    test_count = 0 =>
        /\ Count("headless") = 1
        /\ Cardinality({k \in DOMAIN fb_log :
                fb_log[k].op = "get_market" /\ fb_log[k].ctx = 1}) = 1
        /\ Count("visible") <= 1
        /\ f_pc \notin {"cleanup", "visible"} => Count("visible") = 1

\* A run with a stale session has gone through visible mode and returned.
C8_Witness ==
    /\ test_count = 0
    /\ f_pc = "returned"
    /\ Count("headless") = 1
    /\ Count("visible") = 1

\* C9 as stated: once visible mode is entered, wait_and_scroll and
\* extract_all_listings are called only after the fb_continue confirmation.
C9_NoScrollBeforeReady ==
    \A k \in DOMAIN fb_log :
        (/\ fb_log[k].op \in {"wait_and_scroll", "extract_all_listings"}
         /\ \E j \in 1..(k - 1) : fb_log[j].op = "visible")
        => \E j \in 1..(k - 1) : fb_log[j].op = "ready"

\* The log has an event with the operation after position k.
Later(k, op) == \E j \in (k + 1)..Len(fb_log) : fb_log[j].op = op

\* C17 as stated: from the moment the login browser is opened and recorded
\* in st.session_state until the 'ready' confirmation, the driver-ready flag
\* and the browser handle stay recorded and that browser stays open, so that
\* the confirmation can resume the run with it.
C17_CheckpointKept ==
    \A k \in DOMAIN fb_log :
        (fb_log[k].op = "checkpoint" /\ ~Later(k, "ready")) =>
            /\ fb_driver_ready
            /\ fb_driver_instance = fb_log[k].ctx
            /\ fb_log[k].ctx \in live_contexts

CookieOps == {"add_cookie", "add_cookie_failed"}

\* C18 as stated: in a run whose replay showed zero listings, cookies of the
\* stored session are added to the headless browser context (the first of
\* the run) only, never to the interactive one.
C18_StaleSessionNotReplayed ==
    test_count = 0 =>
        \A k \in DOMAIN fb_log : fb_log[k].op \in CookieOps => fb_log[k].ctx = 1

\* C20: in every browser context a cookie is added only after the context
\* navigated to the site root and before it navigates to the marketplace
\* URL; in a run without a stored session load_session navigates nowhere,
\* adds no cookie and returns False.
C20_ReplayOrdering ==
    /\ \A k \in DOMAIN fb_log : fb_log[k].op \in CookieOps =>
          /\ \E j \in 1..(k - 1) :
                fb_log[j].op = "get_root" /\ fb_log[j].ctx = fb_log[k].ctx
          /\ \A j \in 1..(k - 1) :
                ~(fb_log[j].op = "get_market" /\ fb_log[j].ctx = fb_log[k].ctx)
    /\ ~session_exists =>
          \A k \in DOMAIN fb_log :
              /\ fb_log[k].op \notin CookieOps \cup {"get_root"}
              /\ fb_log[k].op = "load_session" => fb_log[k].arg = 0

\* A run replayed two cookies into the headless browser and, the session
\* being stale, into the login browser, and both went on to the marketplace.
C20_Witness ==
    /\ f_pc = "returned"
    /\ \E k \in DOMAIN fb_log : fb_log[k] = Event("add_cookie", 1, 2)
    /\ \E k \in DOMAIN fb_log : fb_log[k] = Event("get_market", 1, 0)
    /\ \E k \in DOMAIN fb_log : fb_log[k].op \in CookieOps /\ fb_log[k].ctx = 2
    /\ \E k \in DOMAIN fb_log : fb_log[k] = Event("get_market", 2, 0)

\* A run without a stored session opened the login browser: load_session
\* returned False without touching the browser.
C20_AbsenceReached ==
    /\ f_pc = "returned"
    /\ ~session_exists
    /\ \E k \in DOMAIN fb_log : fb_log[k] = Event("load_session", 1, 0)

\* The session file was not rewritten in the run so far: session_file is the
\* list load_session read.
NotSavedYet ==
    \A k \in DOMAIN fb_log : ~(fb_log[k].op = "save_session" /\ fb_log[k].arg = 1)

\* The event of adding the k-th stored cookie in context ctx.
CookieEvent(k, ctx) ==
    Event(IF session_file[k] = "good" THEN "add_cookie" ELSE "add_cookie_failed", ctx, k)

\* C21: once load_session has navigated to the site root it tries to add
\* every stored cookie, in stored order, whether or not earlier additions
\* failed, and then returns True.
C21_EveryCookieAttempted ==
    NotSavedYet =>
        \A g \in DOMAIN fb_log : fb_log[g].op = "get_root" =>
            /\ session_file \in CookieLists
            /\ g + Len(session_file) + 1 <= Len(fb_log)
            /\ \A k \in 1..Len(session_file) :
                  fb_log[g + k] = CookieEvent(k, fb_log[g].ctx)
            /\ fb_log[g + Len(session_file) + 1] = Event("load_session", fb_log[g].ctx, 1)

\* The first stored cookie failed and the second was still added; the
\* session counted as loaded and the replay went on to the marketplace.
C21_Witness ==
    /\ session_file = <<"bad", "good">>
    /\ NotSavedYet
    /\ \E g \in DOMAIN fb_log :
          /\ fb_log[g] = Event("add_cookie_failed", 1, 1)
          /\ fb_log[g + 1] = Event("add_cookie", 1, 2)
          /\ fb_log[g + 2] = Event("load_session", 1, 1)
    /\ session_loaded
    /\ f_pc = "probe"

\* Every stored cookie failed and the session still counted as loaded.
C21_AllFailedReached ==
    /\ session_file = <<"bad", "bad">>
    /\ session_loaded
    /\ f_pc = "probe"

\* The headless browser contexts opened before position v of the log have
\* all been quit before position v.
HeadlessQuitBefore(v) ==
    \A h \in 1..(v - 1) :
        (fb_log[h].op = "headless" /\ fb_log[h].ctx # 0) =>
            \E q \in (h + 1)..(v - 1) :
                fb_log[q] = Event("quit", fb_log[h].ctx, 0)

\* C22: when the headless attempt has not validated the session, its
\* browser is quit and self.driver is None before the interactive path
\* starts, and at no time are two browser contexts live.
C22_StaleSessionCleanup ==
    /\ Cardinality(live_contexts) <= 1
    /\ f_pc \in {"visible", "login"} => (fb_driver = 0 /\ live_contexts = {})
    /\ \A v \in DOMAIN fb_log :
          fb_log[v].op \in {"visible", "open_login"} => HeadlessQuitBefore(v)

\* The replayed session showed no listings, its headless browser 1 was quit,
\* and the interactive browser 2 is the only live context.
C22_Witness ==
    /\ test_count = 0
    /\ \E q \in DOMAIN fb_log : fb_log[q] = Event("quit", 1, 0)
    /\ \E v \in DOMAIN fb_log : fb_log[v] = Event("open_login", 2, 0)
    /\ live_contexts = {2}
    /\ fb_driver = 2

\* The headless set-up raised after creating browser 1; it was quit before
\* the interactive path started.
C22_RaisedSetupReached ==
    /\ Len(fb_log) >= 3
    /\ fb_log[1] = Event("headless", 1, 1)
    /\ fb_log[2] = Event("quit", 1, 0)
    /\ fb_log[3].op = "visible"

\* The session file could not be read and the headless browser was quit.
C22_UnreadableReached ==
    /\ session_file = Unreadable
    /\ Len(fb_log) >= 3
    /\ fb_log[2] = Event("load_session", 1, 0)
    /\ fb_log[3] = Event("quit", 1, 0)
    /\ f_pc = "visible"

\* save_session at position k of the log directly follows the confirmation
\* of the login in the same browser, which has not been to the marketplace;
\* the browser's next step is the navigation to the marketplace, or its quit
\* if that navigation raised.
SavedAfterConfirmation(k) ==
    /\ k > 1
    /\ fb_log[k - 1] = Event("ready", fb_log[k].ctx, 0)
    /\ \A j \in 1..(k - 1) :
          ~(fb_log[j].op = "get_market" /\ fb_log[j].ctx = fb_log[k].ctx)
    /\ k < Len(fb_log) =>
          \/ fb_log[k + 1] = Event("get_market", fb_log[k].ctx, 0)
          \/ fb_log[k + 1] = Event("quit", fb_log[k].ctx, 0)

\* The step appends a successful save_session to the log.
SaveStep ==
    \E k \in DOMAIN fb_log' :
        /\ k > Len(fb_log)
        /\ fb_log'[k].op = "save_session"
        /\ fb_log'[k].arg = 1

\* C23: save_session runs only after the login was confirmed with the
\* continue button and before the marketplace is opened; a run whose
\* replayed session validated, and a run that returns while it awaits the
\* login, leave the stored session as it was.
C23_SaveTiming ==
    /\ [](\A k \in DOMAIN fb_log :
              fb_log[k].op = "save_session" =>
                  (SavedAfterConfirmation(k) /\ ~headless_success))
    /\ [][session_file' # session_file =>
              (f_pc = "checkpoint" /\ fb_driver_ready /\ ~headless_success /\ SaveStep)]_vars
    /\ []((headless_success \/ Count("ready") = 0) => Count("save_session") = 0)

\* The login was confirmed, the session saved and the marketplace opened,
\* in this order.
C23_Witness ==
    \E k \in DOMAIN fb_log :
        /\ k + 2 <= Len(fb_log)
        /\ fb_log[k] = Event("ready", fb_log[k].ctx, 0)
        /\ fb_log[k + 1] = Event("save_session", fb_log[k].ctx, 1)
        /\ fb_log[k + 2] = Event("get_market", fb_log[k].ctx, 0)

\* A run returned empty-handed while it awaited the login and saved nothing.
C23_AwaitingLoginReached ==
    /\ f_pc = "returned"
    /\ fb_result = "empty"
    /\ Count("visible") = 1
    /\ Count("ready") = 0
    /\ Count("save_session") = 0

\* Container c holds an anchor, at any position, whose destination contains
\* the detail-page marker.
MarkerAnchors(c) == {i \in 1..Len(c.anchors) : IsDetailHref(c.anchors[i].href)}

\* C24 as stated: for every container of the strategy in effect that can be
\* read and holds an anchor with the marker '/d/', the absolute URL of such
\* an anchor is in the returned list, under every strategy and wherever the
\* anchor stands in the container.
C24_EveryMarkerContainerListed ==
    d_pc = "done" =>
        \A k \in 1..Len(ContainersInEffect) :
            LET c == ContainersInEffect[k]
            IN  (~c.stale /\ MarkerAnchors(c) # {}) =>
                    \E i \in MarkerAnchors(c) :
                        InList(UrlJoin(SearchUrl, c.anchors[i].href), listing_urls)

\* The cleaned primary location and the cleaned address of the loaded page.
CleanPrimary == Strip(RemoveParens(SafeFindElementText(det_page.small)))

CleanAddress == Strip(CutGoogleMap(SafeFindElementText(det_page.mapaddress)))

\* The parts a location is to be made of: each cleaned part that is not
\* empty, the address only if it does not repeat the primary location.
NonEmptyParts ==
    (IF CleanPrimary # <<>> THEN <<CleanPrimary>> ELSE <<>>)
    \o (IF CleanAddress # <<>> /\ CleanAddress # CleanPrimary
        THEN <<CleanAddress>> ELSE <<>>)

EndsWith(s, pat) ==
    Len(s) >= Len(pat) /\ SubSeq(s, Len(s) - Len(pat) + 1, Len(s)) = pat

\* C25 as stated: the location is the non-empty, distinct cleaned parts
\* joined by " - "; it neither starts nor ends with the joiner.
C25_LocationOfNonEmptyParts ==
    (det_pc = "done" /\ det_result # <<>>) =>
        /\ det_result[1].location =
              (IF NonEmptyParts = <<>> THEN <<>>
               ELSE IF Len(NonEmptyParts) = 1 THEN NonEmptyParts[1]
               ELSE NonEmptyParts[1] \o Joiner \o NonEmptyParts[2])
        /\ ~StartsWith(det_result[1].location, Joiner)
        /\ ~EndsWith(det_result[1].location, Joiner)

\* The number of URLs a run visits when discovery returned n URLs: the
\* configured maximum if there is one and it is smaller, else n.
VisitLimit(n) ==
    IF max_listings > 0 /\ max_listings < n THEN max_listings ELSE n

\* The URLs on which extract_listing_details was invoked, in order.
VisitedUrls == [k \in 1..Len(visited) |-> visited[k].url]

\* C26: the detail builder is invoked on exactly the first min(max, n) of
\* the n discovered URLs, in discovery order, and the run emits at most max
\* records; without a maximum all n URLs are visited.
C26_Truncation ==
    /\ IsPrefix(VisitedUrls, SubSeq(c_found, 1, VisitLimit(Len(c_found))))
    /\ (c_pc \in {"finish", "done"} /\ c_found # <<>>) =>
          VisitedUrls = SubSeq(c_found, 1, VisitLimit(Len(c_found)))
    /\ max_listings > 0 =>
          (Len(all_listings) <= max_listings /\ Len(c_result) <= max_listings)
    /\ (max_listings = 0 /\ c_pc \in {"finish", "done"}) => VisitedUrls = c_found

\* Three URLs were discovered, the maximum is 2: the run visited the first
\* two and returned.
C26_Witness ==
    /\ c_pc = "done"
    /\ Len(c_found) = 3
    /\ max_listings = 2
    /\ VisitedUrls = <<c_found[1], c_found[2]>>

\* No maximum: all three discovered URLs were visited.
C26_NoMaximumReached ==
    /\ c_pc = "done"
    /\ Len(c_found) = 3
    /\ max_listings = 0
    /\ Len(visited) = 3

\* C28: a run of scrape_craigslist that created a browser has quit it
\* exactly once when it returns, on whichever path it returns, and does not
\* quit before; a run that created no browser never calls quit.
C28_BrowserReleasedOnce ==
    /\ c_driver = "none" => quit_calls = 0
    /\ c_driver = "live" => (quit_calls = 0 /\ c_pc # "done")
    /\ c_driver = "quit" => (quit_calls = 1 /\ c_pc = "done")
    /\ c_pc = "done" => c_driver # "live"
    /\ c_pc \in {"discover", "limit", "visit", "finish"} => c_driver = "live"

\* A run whose visits all failed has returned and quit its browser once.
C28_Witness ==
    /\ c_pc = "done"
    /\ c_driver = "quit"
    /\ quit_calls = 1
    /\ Len(visited) = 2
    /\ \A k \in 1..2 : visited[k].page.navFails
    /\ c_result = <<>>

\* The run ended in discovery, by an exception or with no URL, and quit its
\* browser once.
C28_DiscoveryExitReached ==
    /\ c_pc = "done"
    /\ c_found = <<>>
    /\ visited = <<>>
    /\ c_driver = "quit"
    /\ quit_calls = 1

\* No browser could be created: the run returned without a quit.
C28_NoBrowserReached ==
    /\ c_pc = "done"
    /\ c_driver = "none"
    /\ quit_calls = 0

\* Position k of the log is a set-up of the interactive browser that failed.
FailedLoginSetup(k) ==
    fb_log[k].op = "open_login" /\ fb_log[k].arg = 1

\* C27: a run whose browser could not be set up returns the empty result and
\* does nothing with a browser afterwards. The enumerate run decides this
\* before discovery: it navigates, discovers and visits only with a browser.
\* The bulk run whose interactive browser failed stays in the awaiting-login
\* outcome: the login is never confirmed, nothing is saved, opened, scrolled
\* or extracted, and the result is empty.
C27_FatalSetupFailure ==
    /\ c_driver = "none" =>
          /\ c_pc \in {"idle", "done"}
          /\ c_found = <<>> /\ visited = <<>> /\ c_result = <<>>
          /\ quit_calls = 0
    /\ \A k \in DOMAIN fb_log : FailedLoginSetup(k) =>
          /\ \A j \in (k + 1)..Len(fb_log) : fb_log[j].op = "quit"
          /\ f_pc \in {"checkpoint", "finally", "returned", "idle"}
          /\ f_pc # "checkpoint" => fb_result = "empty"
          /\ ~fb_driver_ready
          /\ Count("ready") = 0 /\ Count("save_session") = 0
          /\ Count("wait_and_scroll") = 0 /\ Count("extract_all_listings") = 0

\* A bulk run returned empty-handed after no interactive browser could be
\* created.
C27_Witness ==
    /\ f_pc = "returned"
    /\ fb_result = "empty"
    /\ fb_driver = 0
    /\ \E k \in DOMAIN fb_log : fb_log[k] = Event("open_login", 0, 1)

\* The enumerate run ended without a browser, before discovery.
C27_NoDiscoveryReached ==
    /\ c_pc = "done"
    /\ c_driver = "none"
    /\ c_found = <<>>
    /\ runs = 0

\* The interactive set-up raised after the browser was created; the run
\* returned empty-handed and main quit that browser.
C27_RaisedSetupReached ==
    /\ f_pc = "idle"
    /\ runs = 1
    /\ fb_result = "empty"
    /\ \E k \in DOMAIN fb_log :
          /\ k < Len(fb_log)
          /\ FailedLoginSetup(k) /\ fb_log[k].ctx # 0
          /\ fb_log[k + 1] = Event("quit", fb_log[k].ctx, 0)

\* The container node from which record i of listings was built.
SourceLink(i) == marketplace_links[FirstLinkTo(listings[i].url)]

\* The price strategy a record commits to: the first one that matched an
\* element or raised, the third if none did.
Committed(link) ==
    IF PriceQuery(link, 1) # <<>> THEN 1
    ELSE IF PriceQuery(link, 2) # <<>> THEN 2 ELSE 3

\* The text is a price: it starts with '$', holds a digit and has 2 to 29
\* characters.
IsPriceText(t) ==
    /\ Len(t) >= 2 /\ Len(t) <= 29
    /\ t[1] = "$"
    /\ \E i \in 1..Len(t) : t[i] \in Digits

\* Element i of the committed strategy is the first that holds a price.
FirstPriceAt(elems, i) ==
    /\ IsPriceText(Strip(elems[i]))
    /\ \A j \in 1..(i - 1) : ~IsPriceText(Strip(elems[j]))

\* C29: for every record, price strategy k + 1 was queried only if strategy
\* k matched no element; the price is the text of the first element of the
\* committed strategy that is a price, and the placeholder if that strategy
\* raised or none of its elements is a price, whatever a later strategy
\* would have matched.
C29_PriceCommitsOnPresence ==
    /\ Len(price_lookups) = Len(listings)
    /\ \A i \in 1..Len(listings) :
          LET link == SourceLink(i)
              elems == PriceQuery(link, Committed(link))
          IN  /\ price_lookups[i] = [k \in 1..Committed(link) |-> k]
              /\ \A k \in 1..(Len(price_lookups[i]) - 1) : PriceQuery(link, k) = <<>>
              /\ IF elems # RaisesList /\ \E e \in 1..Len(elems) : FirstPriceAt(elems, e)
                 THEN \E e \in 1..Len(elems) :
                         FirstPriceAt(elems, e) /\ listings[i].price = Strip(elems[e])
                 ELSE listings[i].price = NA

\* Strategy 1 matched two elements that are no prices and strategy 3 would
\* have matched '$5': strategy 1 alone was queried and the price is 'N/A'.
C29_Witness ==
    \E i \in 1..Len(listings) :
        /\ i <= Len(price_lookups)
        /\ price_lookups[i] = <<1>>
        /\ Len(SourceLink(i).p1) = 2
        /\ SourceLink(i).p3 = <<Price5>>
        /\ listings[i].price = NA

\* Strategy 1 matched nothing and strategy 2 gave the price.
C29_SecondStrategyReached ==
    \E i \in 1..Len(listings) :
        /\ i <= Len(price_lookups)
        /\ price_lookups[i] = <<1, 2>>
        /\ listings[i].price = Price9k

====
